---- MODULE Spec2Model ----
(***************************************************************************)
(* InfoTrend: the source registry (src/sources/SourceRegistry.ts), the     *)
(* data fetcher (fetchAllData / fetchDataByType, second half of            *)
(* src/services/aiService.ts) and the service worker's refresh handlers    *)
(* (background/index.ts, src/unnamed/part_009).                            *)
(*                                                                         *)
(* JavaScript is single-threaded: a handler runs without interruption      *)
(* from one `await` to the next.  Every action below is one such           *)
(* synchronous section.  A storage read takes its value at the section     *)
(* that resumes from it, a storage write lands in the section that issues  *)
(* it (chrome.storage.local never rejects through safeStorageGet/Set).     *)
(* The favourites store is the exception: its writes are kept in flight   *)
(* until the storage area settles them, in the order they were issued.     *)
(*                                                                         *)
(* The specifications share the definitions:                               *)
(*   SpecRegistry   the registry driven by arbitrary callers               *)
(*   SpecMerge      one fetchAllData merge over arbitrary settled results  *)
(*   Spec           the service worker: install, alarm and REFRESH_DATA    *)
(*                  handlers running concurrently on the event loop        *)
(*   SpecOrder      fetchFromMany beside one handler, fresh installation   *)
(*   SpecRefresh    the handlers and a caller of triggerRefresh            *)
(*   SpecFreshness  getRefreshStrategy over metadata of every shape        *)
(*   SpecAdapters   one adapter fetched twice, every way its requests end  *)
(*   SpecIds        one fetchAllData call over sources of any type         *)
(*   SpecImport     importData over every format and shape of text         *)
(*   SpecXml        ensureArray over every kind of parsed XML value         *)
(*   SpecWorker     the service worker's handlers under fair scheduling,    *)
(*                  with a stored configuration that may lack `sources`     *)
(*   SpecLlm        callLLM against a server answering in every way         *)
(*   SpecPopup      useSmartRefresh (executeStrategy and manualRefresh)     *)
(*                  beside the service worker's REFRESH_DATA branch         *)
(*   SpecFavorites  the favourites store under overlapping calls            *)
(***************************************************************************)
EXTENDS Integers, Sequences, FiniteSets, TLC

VARIABLES
    \* ---- SourceRegistry
    sources,      \* SourceRegistry.sources: the Map, as a set of <<key, adapter>>
    regOp,        \* the last register/unregister/clear call and how it ended
    call,         \* one caller's SourceRegistry.fetchFrom(name) in flight
    many,         \* one caller's SourceRegistry.fetchFromMany(names) in flight
    \* ---- fetchAllData merge on its own
    merge,        \* the inputs of one fetchAllData merge and its result
    \* ---- service worker and storage
    forceRefresh, \* dataFetcher's module-level flag
    cache,        \* chrome.storage entries cache_<id>
    feeds,        \* chrome.storage entry infotrend_feeds
    lastUpdate,   \* chrome.storage entry infotrend_last_update
    dataMetadata, \* chrome.storage entry infotrend_data_metadata
    now,          \* Date.now()
    pending,      \* how many handler invocations the browser has yet to make
    runs,         \* per handler: its refreshData() call and the tasks of fetchAllData
    \* ---- units on their own
    freshness,    \* one getRefreshStrategy(metadata) call: its inputs and its result
    fetching,     \* one adapter's fetch(options): upstream, options, progress, result
    \* ---- the pages of the extension
    storedConfig, \* chrome.storage entry infotrend_config
    importing,    \* one importData(data, format) call: its inputs, progress, result
    ensuring,     \* one ensureArray(value) call: its argument and its result
    llm,          \* one callLLM(prompt, config, options) call: options, progress, result
    hook,         \* one useSmartRefresh instance: isRefreshingRef and its calls in flight
    favoriteStore \* useFavoriteStore: the Map, the stored list, the calls in flight

regVars   == <<sources, regOp, call, many>>
mergeVars == <<merge>>
swVars    == <<forceRefresh, cache, feeds, lastUpdate, dataMetadata, now, pending, runs>>
swOtherVars == <<forceRefresh, cache, lastUpdate, dataMetadata, now, pending, runs>>
clientVars == <<storedConfig, importing, ensuring, llm, hook, favoriteStore>>
exceptImport == <<regVars, mergeVars, swOtherVars, freshness, fetching, ensuring, llm,
                  hook, favoriteStore>>
exceptEnsuring == <<regVars, mergeVars, swVars, freshness, fetching, storedConfig,
                    importing, llm, hook, favoriteStore>>
exceptLlm == <<regVars, mergeVars, swVars, freshness, fetching, storedConfig, importing,
               ensuring, hook, favoriteStore>>
exceptHook == <<regVars, mergeVars, freshness, fetching, storedConfig, importing,
                ensuring, llm, favoriteStore>>
exceptFavoriteStore == <<regVars, mergeVars, swVars, freshness, fetching, storedConfig,
                         importing, ensuring, llm, hook>>
unitVars  == <<freshness, fetching, clientVars>>
vars      == <<sources, regOp, call, many, merge,
               forceRefresh, cache, feeds, lastUpdate, dataMetadata, now, pending, runs,
               freshness, fetching, storedConfig, importing, ensuring, llm, hook,
               favoriteStore>>

(***************************************************************************)
(* Bounds of the model                                                     *)
(***************************************************************************)
MaxNames == 2      \* longest name list handed to fetchFromMany
MaxTicks == 1      \* milliseconds the clock advances during a behaviour
MaxHandlers == 2   \* handlers of the service worker invoked during a behaviour
MaxCalls == 3      \* calls made on the favourites store during a behaviour
MaxPerSource == 2  \* most items one source hands to a fetchAllData merge
MaxEntries == 3    \* most entries of an RSS feed
MaxStories == 110  \* most ids the HackerNews top stories list holds
MaxDelay == 1      \* seconds from an adapter's call to the reading of a response
RefetchAfter == 60 \* seconds from one fetch of an adapter to the next

(***************************************************************************)
(* Sequences                                                               *)
(***************************************************************************)
RECURSIVE Flatten(_)
Flatten(ss) == IF ss = <<>> THEN <<>> ELSE Head(ss) \o Flatten(Tail(ss))

SeqsUpTo(S, n) == UNION {[1..k -> S] : k \in 0..n}

(***************************************************************************)
(* Adapters.  Every adapter wraps its work in BaseSource.safeExecute with  *)
(* the fallback [], so an HTTP error or a malformed payload resolves to    *)
(* the empty list; "throws" is an adapter that breaks that contract.       *)
(***************************************************************************)
SourceNames == {"GitHub", "HackerNews", "Custom"}

\* adapter instances; gh1 and gh2 are two instances of the same class
Adapters == {"gh1", "gh2", "hn1"}

SourceNameOf(adapter) == IF adapter = "hn1" THEN "HackerNews" ELSE "GitHub"

FetchOutcomes == {"ok", "httpError", "throws"}

\* the adapters of this repository do all their work inside safeExecute
ShippedOutcomes == {"ok", "httpError"}

\* what the upstream provider of `name` currently lists: two entries, the
\* second without a usable date (publishedAt is <<t>> or, when absent, <<>>)
UpstreamItems(name) ==
    << [id |-> <<name, 1>>, publishedAt |-> <<5>>],
       [id |-> <<name, 2>>, publishedAt |-> <<>>] >>

\* BaseSource.safeExecute: the operation's value, or the fallback when it threw
SafeExecute(threw, value, fallback) == IF threw THEN fallback ELSE value

\* adapter.fetch(options) as a settled promise
AdapterFetch(adapter, outcome) ==
    IF outcome = "throws"
    THEN [rejected |-> TRUE, value |-> <<>>]
    ELSE [rejected |-> FALSE,
          value |-> SafeExecute(outcome = "httpError",
                                UpstreamItems(SourceNameOf(adapter)), <<>>)]

(***************************************************************************)
(* SourceRegistry                                                          *)
(***************************************************************************)
NoAdapter == "none"

RegistryHas(reg, name) == \E p \in reg : p[1] = name

RegistryGet(reg, name) ==
    IF RegistryHas(reg, name)
    THEN (CHOOSE p \in reg : p[1] = name)[2]
    ELSE NoAdapter

\* Map.prototype.set: the key's old entry, if any, is replaced
MapSet(reg, key, value) == {p \in reg : p[1] # key} \cup {<<key, value>>}

MapDelete(reg, key) == {p \in reg : p[1] # key}

\* (variant: no duplicate test)
RegisterKeepsFirstNoThrow(reg, adapter) ==
    [threw |-> FALSE, sources |-> reg \cup {<<SourceNameOf(adapter), adapter>>}]

\* register(source): whether it threw, and the Map afterwards
RegisterResult(reg, adapter) ==
    LET key == SourceNameOf(adapter) IN
    IF RegistryHas(reg, key)
    THEN [threw |-> TRUE, sources |-> reg]
    ELSE [threw |-> FALSE, sources |-> MapSet(reg, key, adapter)]

Register(adapter) ==
    /\ sources' = RegisterResult(sources, adapter).sources
    /\ regOp' = [op |-> "register", name |-> SourceNameOf(adapter), adapter |-> adapter,
                 threw |-> RegisterResult(sources, adapter).threw,
                 had |-> RegistryGet(sources, SourceNameOf(adapter))]
    /\ UNCHANGED <<call, many>>

Unregister(name) ==
    /\ sources' = MapDelete(sources, name)
    /\ regOp' = [op |-> "unregister", name |-> name, adapter |-> NoAdapter,
                 threw |-> FALSE, had |-> RegistryGet(sources, name)]
    /\ UNCHANGED <<call, many>>

Clear ==
    /\ sources' = {}
    /\ regOp' = [op |-> "clear", name |-> "", adapter |-> NoAdapter,
                 threw |-> FALSE, had |-> NoAdapter]
    /\ UNCHANGED <<call, many>>

\* fetchFrom up to its first await: the lookup, and the adapter's fetch is
\* started when there is one
FetchFromStart(reg, name) ==
    LET source == RegistryGet(reg, name) IN
    IF source = NoAdapter
    THEN [name |-> name, adapter |-> NoAdapter, invoked |-> FALSE,
          state |-> "fulfilled", outcome |-> "none", value |-> <<>>]
    ELSE [name |-> name, adapter |-> source, invoked |-> TRUE,
          state |-> "pending", outcome |-> "none", value |-> <<>>]

\* (variant: no try/catch around the adapter's fetch)
FetchFromRethrows(c, outcome) ==
    LET r == AdapterFetch(c.adapter, outcome) IN
    [c EXCEPT !.state = IF r.rejected THEN "rejected" ELSE "fulfilled",
              !.outcome = outcome,
              !.value = r.value]

\* fetchFrom from the adapter's settlement to its own: try { return await
\* source.fetch(options) } catch { return [] }
FetchFromSettle(c, outcome) ==
    LET r == AdapterFetch(c.adapter, outcome) IN
    [c EXCEPT !.state = "fulfilled",
              !.outcome = outcome,
              !.value = IF r.rejected THEN <<>> ELSE r.value]

IdleCall == [c |-> [name |-> "", adapter |-> NoAdapter, invoked |-> FALSE,
                    state |-> "idle", outcome |-> "none", value |-> <<>>],
             registered |-> FALSE]

\* `registered` remembers whether the name was in the Map when the call began
FetchFromCall(name) ==
    /\ call.c.state # "pending"
    /\ call' = [c |-> FetchFromStart(sources, name),
                registered |-> RegistryHas(sources, name)]
    /\ UNCHANGED <<sources, regOp, many>>

FetchFromReturn ==
    /\ call.c.state = "pending"
    /\ \E outcome \in FetchOutcomes :
          call' = [call EXCEPT !.c = FetchFromSettle(call.c, outcome)]
    /\ UNCHANGED <<sources, regOp, many>>

\* (variant: values pushed as the fetches complete)
ManyCollectByCompletion(m) ==
    Flatten([k \in 1..Len(m.order) |->
                IF m.slots[m.order[k]].state = "fulfilled"
                THEN m.slots[m.order[k]].value ELSE <<>>])

\* (variant: Promise.all semantics, one failure empties the result)
ManyCollectAll(m) ==
    IF \E i \in DOMAIN m.slots : m.slots[i].outcome # "ok"
    THEN <<>>
    ELSE Flatten([i \in DOMAIN m.slots |-> m.slots[i].value])

\* fetchFromMany after Promise.allSettled: the fulfilled values, in slot order
\* (`result.value` is an array, and every array is truthy)
ManyCollect(m) ==
    Flatten([i \in DOMAIN m.slots |->
                IF m.slots[i].state = "fulfilled"
                THEN m.slots[i].value ELSE <<>>])

\* the slots that settled without awaiting anything, in slot order
RECURSIVE SettledAtStart(_, _)
SettledAtStart(slots, i) ==
    IF i > Len(slots) THEN <<>>
    ELSE (IF slots[i].state # "pending" THEN <<i>> ELSE <<>>)
         \o SettledAtStart(slots, i + 1)

ManyFinish(m) ==
    IF \A i \in DOMAIN m.slots : m.slots[i].state # "pending"
    THEN [m EXCEPT !.pc = "done", !.result = ManyCollect(m)]
    ELSE m

IdleMany == [pc |-> "idle", names |-> <<>>, slots |-> <<>>, order |-> <<>>,
             result |-> <<>>]

FetchFromManyCall(names) ==
    /\ many.pc \in {"idle", "done"}
    /\ LET slots == [i \in DOMAIN names |-> FetchFromStart(sources, names[i])]
       IN many' = ManyFinish([pc |-> "running", names |-> names, slots |-> slots,
                              order |-> SettledAtStart(slots, 1), result |-> <<>>])
    /\ UNCHANGED <<sources, regOp, call>>

FetchFromManySettle(i) ==
    /\ many.pc = "running"
    /\ i \in DOMAIN many.slots
    /\ many.slots[i].state = "pending"
    /\ \E outcome \in FetchOutcomes :
          many' = ManyFinish([many EXCEPT
                     !.slots[i] = FetchFromSettle(many.slots[i], outcome),
                     !.order = Append(many.order, i)])
    /\ UNCHANGED <<sources, regOp, call>>

(***************************************************************************)
(* fetchAllData: filter, stamp isPinned, concatenate, sort                 *)
(***************************************************************************)
\* SourceConfig.isPinned is optional: true, false or absent
PinValues == {"true", "false", "undefined"}

\* (variant: no filter)
EnabledSourcesUnfiltered(srcs) == srcs

\* sources.filter((s) => s.enabled)
EnabledSources(srcs) == SelectSeq(srcs, LAMBDA s : s.enabled)

\* result.value.map(item => ({...item, isPinned: source.isPinned}))
StampPinned(items, source) ==
    [k \in DOMAIN items |->
        [id |-> items[k].id, publishedAt |-> items[k].publishedAt,
         isPinned |-> source.isPinned]]

\* the forEach over the settled results: allItems before the sort
ConcatResults(enabled, results) ==
    Flatten([i \in DOMAIN enabled |->
        IF results[i].status = "fulfilled"
        THEN StampPinned(results[i].value, enabled[i]) ELSE <<>>])

\* new Date(item.publishedAt || 0).getTime() || 0
GetTime(item) == IF item.publishedAt = <<>> THEN 0 ELSE item.publishedAt[1]

\* (variant: the pinned test left out)
CompareByDateOnly(a, b) == GetTime(b) - GetTime(a)

\* the comparator handed to allItems.sort
Compare(a, b) ==
    IF a.isPinned # b.isPinned
    THEN (IF a.isPinned = "true" THEN -1 ELSE 1)
    ELSE GetTime(b) - GetTime(a)

(* Array.prototype.sort as V8 runs it (the extension runs in Chrome) on an  *)
(* array of fewer than 64 elements: the leading run is found and reversed   *)
(* when strictly descending, the rest is placed by binary insertion.  The   *)
(* comparator above is not a consistent one (false and absent differ and    *)
(* each sorts after the other), so the order depends on the comparisons     *)
(* the algorithm makes.                                                     *)
Reverse(s) == [i \in DOMAIN s |-> s[Len(s) + 1 - i]]

RECURSIVE RunLength(_, _, _)
RunLength(work, idx, descending) ==
    IF idx > Len(work) THEN idx - 1
    ELSE LET order == Compare(work[idx], work[idx - 1]) IN
         IF (descending /\ order >= 0) \/ (~descending /\ order < 0)
         THEN idx - 1
         ELSE RunLength(work, idx + 1, descending)

RECURSIVE BinarySearch(_, _, _, _)
BinarySearch(work, pivot, left, right) ==
    IF left < right
    THEN LET mid == left + ((right - left) \div 2) IN
         IF Compare(pivot, work[mid]) < 0
         THEN BinarySearch(work, pivot, left, mid)
         ELSE BinarySearch(work, pivot, mid + 1, right)
    ELSE left

RECURSIVE BinaryInsertionSort(_, _)
BinaryInsertionSort(work, start) ==
    IF start > Len(work) THEN work
    ELSE LET pivot == work[start]
             pos   == BinarySearch(work, pivot, 1, start)
             moved == SubSeq(work, 1, pos - 1) \o <<pivot>>
                      \o SubSeq(work, pos, start - 1)
                      \o SubSeq(work, start + 1, Len(work))
         IN BinaryInsertionSort(moved, start + 1)

SortItems(items) ==
    IF Len(items) < 2 THEN items
    ELSE LET descending == Compare(items[2], items[1]) < 0
             run        == RunLength(items, 3, descending)
             work       == IF descending
                           THEN Reverse(SubSeq(items, 1, run))
                                \o SubSeq(items, run + 1, Len(items))
                           ELSE items
         IN BinaryInsertionSort(work, run + 1)

FetchAllDataResult(enabled, results) == SortItems(ConcatResults(enabled, results))

(***************************************************************************)
(* Storage and the per-source cache                                        *)
(***************************************************************************)
\* const CACHE_DURATION = 30 * 60 * 1000
CACHE_DURATION == 30 * 60 * 1000

DAY_MS == 24 * 60 * 60 * 1000

\* the stored configuration the refreshes read: three of the default
\* sources, the third disabled as in defaultSources
ConfigSources ==
    << [id |-> "github-trending", type |-> "GitHub",     enabled |-> TRUE,
        isPinned |-> "undefined"],
       [id |-> "hacker-news",     type |-> "HackerNews", enabled |-> TRUE,
        isPinned |-> "true"],
       [id |-> "echo-js",         type |-> "EchoJS",     enabled |-> FALSE,
        isPinned |-> "undefined"] >>

\* config.maxItems as the user set it (the default is 100)
ConfigMaxItems == 3

\* the adapters the source modules register when they are imported
AutoRegistered == {<<"GitHub", "gh1">>, <<"HackerNews", "hn1">>}

\* `cache_${source.id || source.type}`
CacheKey(source) == IF source.id # "" THEN source.id ELSE source.type

CacheKeys == {CacheKey(ConfigSources[i]) : i \in DOMAIN ConfigSources}

NoEntry == [present |-> FALSE, items |-> <<>>, timestamp |-> 0]

\* what an earlier refresh left in a source's entry
StaleItems(source) == << [id |-> <<source.type, 0>>, publishedAt |-> <<3>>] >>

\* cachedData?.items || []
CachedItemsOrEmpty(cachedData) == IF cachedData.present THEN cachedData.items ELSE <<>>

\* (variants: forceRefresh not consulted; <= in place of <)
CacheValidIgnoringFlag(flag, cachedData, t) ==
    cachedData.present /\ t - cachedData.timestamp < CACHE_DURATION

CacheValidInclusive(flag, cachedData, t) ==
    ~flag /\ cachedData.present /\ t - cachedData.timestamp <= CACHE_DURATION

\* !forceRefresh && cachedData && Date.now() - cachedData.timestamp < CACHE_DURATION
CacheValid(flag, cachedData, t) ==
    ~flag /\ cachedData.present /\ t - cachedData.timestamp < CACHE_DURATION

\* Array.prototype.slice(0, n)
Slice(items, n) == SubSeq(items, 1, IF Len(items) < n THEN Len(items) ELSE n)

\* updateDataMetadata: the local calendar date of an instant
DateOf(t) == t \div DAY_MS

(***************************************************************************)
(* fetchDataByType, one task per enabled source of a fetchAllData call     *)
(***************************************************************************)
NewTask == [pc |-> "getCache", cachedData |-> NoEntry, flag |-> FALSE,
            fresh |-> FALSE, path |-> "none", call |-> IdleCall.c,
            value |-> <<>>, wrote |-> FALSE]

\* from the resumption after `await getCache(cacheKey)` to the next await or
\* the return: the TTL check, the registry check, the start of fetchFrom.
\* flag and fresh remember what the check saw: forceRefresh, and whether the
\* entry was there and younger than CACHE_DURATION
TaskAfterGetCache(task, source, cachedData, flag, t, reg) ==
    LET seen == [task EXCEPT !.cachedData = cachedData, !.flag = flag,
                             !.fresh = cachedData.present
                                       /\ t - cachedData.timestamp < CACHE_DURATION]
    IN  IF CacheValid(flag, cachedData, t)
        THEN [seen EXCEPT !.pc = "done", !.path = "hit",
                          !.value = cachedData.items]
        ELSE IF ~RegistryHas(reg, source.type)
        THEN [seen EXCEPT !.pc = "done", !.path = "unregistered",
                          !.value = CachedItemsOrEmpty(cachedData)]
        ELSE [seen EXCEPT !.pc = "fetchFrom", !.path = "fetched",
                          !.call = FetchFromStart(reg, source.type)]

\* from the settlement of fetchFrom on: the entry saved and the items
\* returned.  fetchFrom never rejects and safeStorageSet never rejects, so
\* the catch block of fetchDataByType is not entered from here.
TaskAfterFetchFrom(task, outcome) ==
    LET c == FetchFromSettle(task.call, outcome) IN
    IF c.state = "rejected"
    THEN [task EXCEPT !.pc = "done", !.call = c,
                      !.value = CachedItemsOrEmpty(task.cachedData)]
    ELSE [task EXCEPT !.pc = "done", !.call = c, !.value = c.value,
                      !.wrote = TRUE]

\* (variant: the fetched items are added to the entry's items)
CacheAfterMerging(task, source, t, old) ==
    IF task.wrote
    THEN [old EXCEPT ![CacheKey(source)] =
             [present |-> TRUE, items |-> old[CacheKey(source)].items \o task.value,
              timestamp |-> t]]
    ELSE old

\* saveCache(cacheKey, {items, timestamp: Date.now()})
CacheAfter(task, source, t, old) ==
    IF task.wrote
    THEN [old EXCEPT ![CacheKey(source)] =
             [present |-> TRUE, items |-> task.value, timestamp |-> t]]
    ELSE old

(***************************************************************************)
(* The service worker's handlers                                           *)
(***************************************************************************)
Handlers == {"install", "alarm", "message"}

\* the alarm listener and the REFRESH_DATA branch call setForceRefresh(true)
\* before refreshData(); initializeData does not
SetsForce(h) == h # "install"

\* the invocations of the REFRESH_DATA branch: "message" for the message of
\* useSmartRefresh's executeStrategy (or of any sender), "manualMessage" for
\* the one of its manualRefresh
Messages == {"message", "manualMessage"}

\* whoever runs a full refresh: the handlers, a second invocation of the
\* REFRESH_DATA branch, and a caller of dataFetcher's exported
\* triggerRefresh(sources)
Callers == Handlers \cup {"trigger", "manualMessage"}

\* order lists the tasks of fetchAllData by the time they returned; capped
\* tells whether what the run handed to saveFeeds was the merged result cut
\* to config.maxItems; metadataWrites counts its updateDataMetadata calls
IdleRun == [pc |-> "idle", forced |-> FALSE, enabled |-> <<>>, tasks |-> <<>>,
            order |-> <<>>, allItems |-> <<>>, items |-> <<>>, responded |-> FALSE,
            capped |-> FALSE, metadataWrites |-> 0]

\* a handler is invoked.  install: initializeData up to `await getConfig()`;
\* alarm, message: setForceRefresh(true), then refreshData up to its
\* `await getConfig()`
Deliver(h) ==
    /\ runs[h].pc = "idle"
    /\ pending > 0
    /\ pending' = pending - 1
    /\ forceRefresh' = IF SetsForce(h) THEN TRUE ELSE forceRefresh
    /\ runs' = [runs EXCEPT ![h].pc = IF h = "install" THEN "initializeData"
                                                      ELSE "getConfig",
                            ![h].forced = SetsForce(h)]
    /\ UNCHANGED <<cache, feeds, lastUpdate, dataMetadata, now>>

\* initializeData after its getConfig: every default source is already in the
\* stored configuration, nothing is saved, refreshData() begins
InitializeData ==
    /\ runs["install"].pc = "initializeData"
    /\ runs' = [runs EXCEPT !["install"].pc = "getConfig"]
    /\ UNCHANGED <<forceRefresh, cache, feeds, lastUpdate, dataMetadata, now, pending>>

\* what getConfig() returns has a `sources` array: defaultConfig and every
\* configuration the options page saved have one; importData stores what
\* the backup text holds, and "malformed" is such an object without it
HasSources(stored) == stored # "malformed"

\* (variant: refreshData without its try/catch)
RefreshDataUncaught(failed) == IF failed THEN "rejected" ELSE "updateDataMetadata"

\* refreshData's try/catch: an exception thrown inside it is logged and
\* refreshData returns normally ("caught"); it never rejects
RefreshDataSettles(failed) == IF failed THEN "caught" ELSE "updateDataMetadata"

\* refreshData after `await getConfig()`: fetchAllData filters the enabled
\* sources and starts fetchDataByType for each, up to its `await getCache`;
\* config.sources.filter throws when the stored configuration has no sources
StartFetchAll(h) ==
    /\ runs[h].pc = "getConfig"
    /\ IF HasSources(storedConfig)
       THEN LET enabled == EnabledSources(ConfigSources) IN
            runs' = [runs EXCEPT ![h].pc = "fetchAllData",
                                 ![h].enabled = enabled,
                                 ![h].tasks = [i \in DOMAIN enabled |-> NewTask]]
       ELSE runs' = [runs EXCEPT ![h].pc = RefreshDataSettles(TRUE)]
    /\ UNCHANGED <<forceRefresh, cache, feeds, lastUpdate, dataMetadata, now, pending>>

\* triggerRefresh(sources) up to the `await getCache` of its tasks
TriggerRefresh ==
    /\ runs["trigger"].pc = "idle"
    /\ pending > 0
    /\ pending' = pending - 1
    /\ LET enabled == EnabledSources(ConfigSources) IN
       runs' = [runs EXCEPT !["trigger"].pc = "fetchAllData",
                            !["trigger"].enabled = enabled,
                            !["trigger"].tasks = [i \in DOMAIN enabled |-> NewTask]]
    /\ UNCHANGED <<forceRefresh, cache, feeds, lastUpdate, dataMetadata, now>>

\* what the caller hands to saveFeeds: refreshData the first config.maxItems
\* items, triggerRefresh all of them
ItemsToSave(h, items) ==
    IF h = "trigger" THEN items ELSE Slice(items, ConfigMaxItems)

\* when the last task has returned, Promise.allSettled resolves: fetchAllData
\* merges and sorts, the caller issues saveFeeds
Settled(h, run) ==
    IF \A i \in DOMAIN run.tasks : run.tasks[i].pc = "done"
    THEN LET results == [i \in DOMAIN run.tasks |->
                            [status |-> "fulfilled", value |-> run.tasks[i].value]]
             items   == FetchAllDataResult(run.enabled, results)
         IN [run EXCEPT !.pc = "saveFeeds",
                        !.allItems = ConcatResults(run.enabled, results),
                        !.items = items,
                        !.capped = (ItemsToSave(h, items) = Slice(items, ConfigMaxItems))]
    ELSE run

Returned(run, i) ==
    IF run.tasks[i].pc = "done" THEN [run EXCEPT !.order = Append(run.order, i)]
    ELSE run

FeedsAfter(h, run, old) ==
    IF run.pc = "saveFeeds" THEN ItemsToSave(h, run.items) ELSE old

TaskResume(h, i) ==
    /\ runs[h].pc = "fetchAllData"
    /\ i \in DOMAIN runs[h].tasks
    /\ runs[h].tasks[i].pc = "getCache"
    /\ LET source == runs[h].enabled[i]
           task   == TaskAfterGetCache(runs[h].tasks[i], source,
                                       cache[CacheKey(source)], forceRefresh,
                                       now, sources)
           run    == Settled(h, Returned([runs[h] EXCEPT !.tasks[i] = task], i))
       IN /\ runs' = [runs EXCEPT ![h] = run]
          /\ feeds' = FeedsAfter(h, run, feeds)
    /\ UNCHANGED <<forceRefresh, cache, lastUpdate, dataMetadata, now, pending>>

TaskFetched(h, i) ==
    /\ runs[h].pc = "fetchAllData"
    /\ i \in DOMAIN runs[h].tasks
    /\ runs[h].tasks[i].pc = "fetchFrom"
    /\ \E outcome \in ShippedOutcomes :
         LET source == runs[h].enabled[i]
             task   == TaskAfterFetchFrom(runs[h].tasks[i], outcome)
             run    == Settled(h, Returned([runs[h] EXCEPT !.tasks[i] = task], i))
         IN /\ runs' = [runs EXCEPT ![h] = run]
            /\ cache' = CacheAfter(task, source, now, cache)
            /\ feeds' = FeedsAfter(h, run, feeds)
    /\ UNCHANGED <<forceRefresh, lastUpdate, dataMetadata, now, pending>>

\* the caller resumes from saveFeeds and issues updateLastUpdate
AfterSaveFeeds(h) ==
    /\ runs[h].pc = "saveFeeds"
    /\ lastUpdate' = now
    /\ runs' = [runs EXCEPT ![h] = [IdleRun EXCEPT !.pc = "updateLastUpdate",
                                                   !.forced = runs[h].forced,
                                                   !.capped = runs[h].capped]]
    /\ UNCHANGED <<forceRefresh, cache, feeds, dataMetadata, now, pending>>

\* refreshData resumes from updateLastUpdate and issues updateDataMetadata;
\* triggerRefresh resumes from it and returns
AfterUpdateLastUpdate(h) ==
    /\ runs[h].pc = "updateLastUpdate"
    /\ IF h = "trigger"
       THEN /\ runs' = [runs EXCEPT ![h].pc = "done"]
            /\ UNCHANGED dataMetadata
       ELSE /\ dataMetadata' = [lastUpdateTime |-> now, lastUpdateDate |-> DateOf(now)]
            /\ runs' = [runs EXCEPT ![h].pc = RefreshDataSettles(FALSE),
                                    ![h].metadataWrites = @ + 1]
    /\ UNCHANGED <<forceRefresh, cache, feeds, lastUpdate, now, pending>>

\* refreshData returns; the alarm listener and the REFRESH_DATA callback call
\* setForceRefresh(false), the latter then sendResponse
AfterRefreshData(h) ==
    /\ runs[h].pc \in {"updateDataMetadata", "caught"}
    /\ forceRefresh' = IF SetsForce(h) THEN FALSE ELSE forceRefresh
    /\ runs' = [runs EXCEPT ![h].pc = "done",
                            ![h].responded = (h \in Messages)]
    /\ UNCHANGED <<cache, feeds, lastUpdate, dataMetadata, now, pending>>

\* the clock
Tick ==
    /\ now < CACHE_DURATION + MaxTicks
    /\ now' = now + 1
    /\ UNCHANGED <<forceRefresh, cache, feeds, lastUpdate, dataMetadata, pending, runs>>

(***************************************************************************)
(* The freshness policy (src/services/freshnessService.ts).  Times are     *)
(* epoch milliseconds; a calendar date "YYYY-MM-DD" is the number of the   *)
(* day it names, two date strings being equal exactly when they name the   *)
(* same day.                                                               *)
(***************************************************************************)
SILENT_THRESHOLD_MS == 30 * 60 * 1000

FORCE_THRESHOLD_MS == 6 * 60 * 60 * 1000

RefreshStrategy == {"immediate", "silent", "force"}

\* getTodayDateString() when Date.now() is t
GetTodayDateString(t) == DateOf(t)

IsSameDay(dateStr1, dateStr2) == dateStr1 = dateStr2

IsNewDay(lastUpdateDate, t) == ~IsSameDay(lastUpdateDate, GetTodayDateString(t))

CalculateDataAge(lastUpdateTime, t) == t - lastUpdateTime

\* a metadata argument: null, or an object whose lastUpdateTime may be absent
NullMetadata == [isNull |-> TRUE, hasTime |-> FALSE, lastUpdateTime |-> 0,
                 lastUpdateDate |-> 0]

\* !metadata.lastUpdateTime: undefined and 0 are falsy
NoLastUpdateTime(metadata) == ~metadata.hasTime \/ metadata.lastUpdateTime = 0

\* (variant: the age tiers are consulted before the calendar date)
GetRefreshStrategyAgeFirst(metadata, t) ==
    IF metadata.isNull \/ NoLastUpdateTime(metadata) THEN "force"
    ELSE LET age == CalculateDataAge(metadata.lastUpdateTime, t) IN
         IF age > FORCE_THRESHOLD_MS THEN "force"
         ELSE IF age > SILENT_THRESHOLD_MS THEN "silent"
         ELSE IF IsNewDay(metadata.lastUpdateDate, t) THEN "force"
         ELSE "immediate"

\* (variant: the thresholds themselves belong to the upper tier)
GetRefreshStrategyInclusive(metadata, t) ==
    IF metadata.isNull \/ NoLastUpdateTime(metadata) THEN "force"
    ELSE LET age == CalculateDataAge(metadata.lastUpdateTime, t) IN
         IF IsNewDay(metadata.lastUpdateDate, t) THEN "force"
         ELSE IF age >= FORCE_THRESHOLD_MS THEN "force"
         ELSE IF age >= SILENT_THRESHOLD_MS THEN "silent"
         ELSE "immediate"

\* (variant: only null is tested; with lastUpdateTime absent the age is NaN
\* and both comparisons with it are false)
GetRefreshStrategyNullOnly(metadata, t) ==
    IF metadata.isNull THEN "force"
    ELSE IF IsNewDay(metadata.lastUpdateDate, t) THEN "force"
    ELSE IF ~metadata.hasTime THEN "immediate"
    ELSE LET age == CalculateDataAge(metadata.lastUpdateTime, t) IN
         IF age > FORCE_THRESHOLD_MS THEN "force"
         ELSE IF age > SILENT_THRESHOLD_MS THEN "silent"
         ELSE "immediate"

\* getRefreshStrategy(metadata) when Date.now() is t
GetRefreshStrategy(metadata, t) ==
    IF metadata.isNull \/ NoLastUpdateTime(metadata) THEN "force"
    ELSE LET age == CalculateDataAge(metadata.lastUpdateTime, t) IN
         IF IsNewDay(metadata.lastUpdateDate, t) THEN "force"
         ELSE IF age > FORCE_THRESHOLD_MS THEN "force"
         ELSE IF age > SILENT_THRESHOLD_MS THEN "silent"
         ELSE "immediate"

IdleFreshness == [pc |-> "idle", metadata |-> NullMetadata, now |-> 0,
                  strategy |-> "none"]

\* the caller's getRefreshStrategy(metadata)
GetRefreshStrategyCall ==
    /\ freshness.pc = "called"
    /\ freshness' = [freshness EXCEPT
                        !.pc = "returned",
                        !.strategy = GetRefreshStrategy(freshness.metadata, freshness.now)]
    /\ UNCHANGED <<regVars, mergeVars, swVars, fetching, clientVars>>

(***************************************************************************)
(* The adapters (src/sources/*.ts).  One fetch(options) is followed from   *)
(* its call to its return, one action per response of the network.  Times  *)
(* here are epoch seconds: the windows of TIME_RANGE_MS reach beyond the   *)
(* 32-bit integers in milliseconds, and feed dates carry whole seconds.    *)
(*                                                                         *)
(* An upstream entry is [key, date, score, emptySelf]: key is the          *)
(* provider's own id of the entry (also its link), date is what the        *)
(* provider says about its publication.  A FeedItem id                     *)
(* "<prefix>-<a>-<b>" is the tuple <<prefix, a, b>>.                       *)
(***************************************************************************)
AdapterNames == {"DevTo", "EchoJS", "HackerNews", "Reddit", "ProductHunt", "ArXiv",
                 "GitHub", "RSS"}

\* adapters that make one request and map the entries of its payload
SingleRequestAdapters == {"DevTo", "EchoJS", "Reddit", "ArXiv", "GitHub", "RSS"}

\* adapters whose payload is JSON: response.json() rejects on anything else
JsonAdapters == {"DevTo", "EchoJS", "Reddit"}

\* adapters that cut the payload to `count` themselves
SlicingAdapters == {"EchoJS", "Reddit", "GitHub"}

\* this.sourceName.toLowerCase()
ToLowerCase(name) ==
    CASE name = "DevTo" -> "devto"
      [] name = "EchoJS" -> "echojs"
      [] name = "HackerNews" -> "hackernews"
      [] name = "Reddit" -> "reddit"
      [] name = "ProductHunt" -> "producthunt"
      [] name = "ArXiv" -> "arxiv"
      [] name = "GitHub" -> "github"
      [] OTHER -> "rss"

\* BaseSource.generateId: `${this.sourceName.toLowerCase()}-${identifier}`
GenerateId(sourceName, identifier) == <<ToLowerCase(sourceName)>> \o identifier

\* an option the caller did not pass
Absent == -1

\* protected defaultCount
DefaultCount(name) ==
    IF name = "ProductHunt" THEN 5 ELSE IF name = "HackerNews" THEN 15 ELSE 10

\* options.count ?? this.defaultCount
CountOf(name, options) ==
    IF options.count = Absent THEN DefaultCount(name) ELSE options.count

\* BaseSource.parseTimestamp: the ISO string of a usable date, else undefined
ParseTimestamp(date) == IF date.kind = "valid" THEN <<date.t>> ELSE <<>>

\* how a request can end: a usable payload, fetch() rejecting, a non-2xx
\* status, a body that does not parse, a body that parses into something
\* without the expected container
ResponseKinds == {"ok", "networkError", "httpError", "unparseable", "wrongShape"}

\* async fetch(options) { return await this.safeExecute(operation, []) }
\* (variant: the operation is awaited bare)
FetchSettlesUnguarded(op) == [rejected |-> op.threw, value |-> op.value]

FetchSettles(op) ==
    [rejected |-> FALSE, value |-> SafeExecute(op.threw, op.value, <<>>)]

\* ---- DevTo, EchoJS, Reddit, ArXiv, GitHub
\* the FeedItem of one entry
KeyedItem(name, entry) ==
    [id |-> GenerateId(name, <<entry.key>>), url |-> entry.key,
     publishedAt |-> ParseTimestamp(entry.date), score |-> entry.score]

\* the operation handed to safeExecute, given how the request ended
KeyedOperation(name, options, response, listing) ==
    IF response \in {"networkError", "httpError"}
    THEN [threw |-> TRUE, value |-> <<>>]
    ELSE IF response \in {"unparseable", "wrongShape"}
    THEN \* response.json() rejects, or `data.map`, `data.news.slice`,
         \* `data.data.children` is a TypeError; text that is no feed and no
         \* trending page holds no entry
         [threw |-> name \in JsonAdapters, value |-> <<>>]
    ELSE LET posts == IF name = "Reddit"
                      THEN SelectSeq(listing, LAMBDA e : ~e.emptySelf)
                      ELSE listing
             taken == IF name \in SlicingAdapters
                      THEN Slice(posts, CountOf(name, options))
                      ELSE posts
         IN [threw |-> FALSE,
             value |-> [k \in DOMAIN taken |-> KeyedItem(name, taken[k])]]

\* ---- RSS
\* TIME_RANGE_MS, in seconds
TimeRangeSeconds(timeRange) ==
    CASE timeRange = "1d" -> 24 * 60 * 60
      [] timeRange = "3d" -> 3 * 24 * 60 * 60
      [] timeRange = "7d" -> 7 * 24 * 60 * 60
      [] OTHER -> 30 * 24 * 60 * 60

\* options?.count || 100
RssMaxCount(options) ==
    IF options.count = Absent \/ options.count = 0 THEN 100 ELSE options.count

\* options?.timeRange || '7d'
RssTimeRange(options) == IF options.timeRange = "" THEN "7d" ELSE options.timeRange

\* publishedAtDate of one entry when it is read at time t.  pubDate is ''
\* (absent), a string Date cannot parse, or a string it can
RssPublishedAt(date, t) == IF date.kind = "valid" THEN date.t ELSE t

\* the body of the for loop from index `from` on (indices are zero-based)
RECURSIVE RssLoop(_, _, _, _, _, _)
RssLoop(items, from, bound, cutoffTime, url, t) ==
    IF from >= bound THEN <<>>
    ELSE LET entry == items[from + 1]
             publishedAt == RssPublishedAt(entry.date, t)
             rest == RssLoop(items, from + 1, bound, cutoffTime, url, t)
         IN IF publishedAt < cutoffTime THEN rest
            ELSE <<[id |-> <<"rss", url, from>>, url |-> entry.key,
                    publishedAt |-> <<publishedAt>>, score |-> entry.score]>> \o rest

Min(a, b) == IF a < b THEN a ELSE b

\* `pubDate && pubDate.trim()` on a pubDate that the parser delivered as an
\* object (a CDATA section, an attribute): pubDate.trim is not a function
RssLoopThrows(items, bound) ==
    \E k \in 1..bound : items[k].date.kind = "object"

\* the operation handed to safeExecute; t0 is Date.now() at the call, t the
\* time the response is read
RssOperation(options, response, listing, t0, t) ==
    IF response \in {"networkError", "httpError"}
    THEN [threw |-> TRUE, value |-> <<>>]
    ELSE IF response \in {"unparseable", "wrongShape"}
    THEN [threw |-> FALSE, value |-> <<>>]
    ELSE LET cutoffTime == t0 - TimeRangeSeconds(RssTimeRange(options))
             bound      == Min(Len(listing), RssMaxCount(options))
         IN IF RssLoopThrows(listing, bound)
            THEN [threw |-> TRUE, value |-> <<>>]
            ELSE [threw |-> FALSE,
                  value |-> RssLoop(listing, 0, bound, cutoffTime, options.url, t)]

\* fetch(options) of a single-request adapter once its request has ended
SingleRequestResult(name, options, response, listing, t0, t) ==
    IF name = "RSS"
    THEN FetchSettles(RssOperation(options, response, listing, t0, t))
    ELSE FetchSettles(KeyedOperation(name, options, response, listing))

\* ---- ProductHunt
\* RSS_PROXIES, by position
RSS_PROXIES == <<"rss2json", "allorigins", "corsproxy">>

\* how one proxy request can end: as a request of any adapter, or with a
\* well-formed payload that lists no item
ProxyOutcomes == ResponseKinds \cup {"empty"}

\* one pass of the loop body of fetchWithFallback for RSS_PROXIES[i]:
\* "return" (of the parsed items), "returnUndefined" (rss2json's
\* parseResponse reads `.items` off a payload that has none) or "throw"
\* with the message of the error
ProxyStep(i, outcome) ==
    CASE outcome = "networkError" -> [kind |-> "throw", message |-> "Failed to fetch"]
      [] outcome = "httpError"    -> [kind |-> "throw", message |-> "ProductHunt API error"]
      [] outcome = "ok"           -> [kind |-> "return", message |-> ""]
      [] outcome = "unparseable"  ->
            IF RSS_PROXIES[i] = "corsproxy"
            THEN [kind |-> "throw", message |-> "No items parsed from RSS feed"]
            ELSE [kind |-> "throw", message |-> "Unexpected token"]
      [] outcome = "wrongShape"   ->
            IF RSS_PROXIES[i] = "rss2json"
            THEN [kind |-> "returnUndefined", message |-> ""]
            ELSE [kind |-> "throw", message |-> "No items parsed from RSS feed"]
      [] OTHER                    ->
            IF RSS_PROXIES[i] = "rss2json"
            THEN [kind |-> "return", message |-> ""]
            ELSE [kind |-> "throw", message |-> "No items parsed from RSS feed"]

\* rssItems.slice(0, count).map((item, index) => ...) at time t
ProductHuntItems(rssItems, count, t) ==
    LET taken == Slice(rssItems, count) IN
    [k \in DOMAIN taken |->
        [id |-> GenerateId("ProductHunt", <<k - 1, t>>), url |-> taken[k].key,
         publishedAt |-> ParseTimestamp(taken[k].date), score |-> taken[k].score]]

\* the operation handed to safeExecute once fetchWithFallback has settled:
\* with the items of a proxy, with undefined, or with the aggregated error
ProductHuntOperation(options, settled, rssItems, t) ==
    IF settled = "return"
    THEN [threw |-> FALSE,
          value |-> ProductHuntItems(rssItems, CountOf("ProductHunt", options), t)]
    ELSE [threw |-> TRUE, value |-> <<>>]

\* ---- HackerNews
\* options.minScore ?? 100
MinScoreOf(options) == IF options.minScore = Absent THEN 100 ELSE options.minScore

\* Math.min(count * 3, 100)
HnFetchCount(options) == Min(CountOf("HackerNews", options) * 3, 100)

\* (variant: three times count, without the cap)
HnTopStoryIdsUncapped(options, storyIds) ==
    Slice(storyIds, CountOf("HackerNews", options) * 3)

\* storyIds.slice(0, fetchCount)
HnTopStoryIds(options, storyIds) == Slice(storyIds, HnFetchCount(options))

\* how the item requests can end together: every one with its item, one of
\* them with an error, one of them with `null` (a deleted story)
DetailKinds == {"ok", "oneFails", "nullItem"}

\* items.filter(score >= minScore).slice(0, count).map(...)
HnOperation(options, details, items) ==
    IF details # "ok"
    THEN [threw |-> TRUE, value |-> <<>>]
    ELSE LET kept  == SelectSeq(items, LAMBDA e : e.score >= MinScoreOf(options))
             taken == Slice(kept, CountOf("HackerNews", options))
         IN [threw |-> FALSE,
             value |-> [k \in DOMAIN taken |-> KeyedItem("HackerNews", taken[k])]]

\* ---- one fetch(options), step by step
NoResult == [rejected |-> FALSE, value |-> <<>>]

NoOptions == [count |-> Absent, minScore |-> Absent, url |-> 0, timeRange |-> ""]

\* responses: how the requests of this fetch ended, in order; attempts: the
\* proxies asked (ProductHunt); requested: the stories asked for
\* (HackerNews); message: the messages inside the error that safeExecute
\* caught (ProductHunt); previous: what the fetch before this one returned
IdleFetching ==
    [pc |-> "idle", adapter |-> "RSS", options |-> NoOptions, upstream |-> <<>>,
     at |-> 0, readAt |-> 0, round |-> 0, requests |-> 0, responses |-> <<>>,
     attempts |-> <<>>, errors |-> <<>>, message |-> <<>>, requested |-> <<>>,
     result |-> NoResult, previous |-> <<>>]

\* fetch(options) up to its first `await`
AdapterStart ==
    /\ fetching.pc = "called"
    /\ IF fetching.adapter = "RSS" /\ fetching.options.url = 0
       THEN fetching' = [fetching EXCEPT !.pc = "returned", !.result = NoResult,
                                         !.readAt = fetching.at]
       ELSE fetching' = [fetching EXCEPT
                            !.pc = "request",
                            !.requests = 1,
                            !.attempts = IF fetching.adapter = "ProductHunt"
                                         THEN <<1>> ELSE <<>>]
    /\ UNCHANGED <<regVars, mergeVars, swVars, freshness, clientVars>>

\* the request of a single-request adapter ends
SingleResponds(response, delay) ==
    /\ fetching.pc = "request"
    /\ fetching.adapter \in SingleRequestAdapters
    /\ LET t == fetching.at + delay IN
       fetching' = [fetching EXCEPT
                       !.pc = "returned",
                       !.readAt = t,
                       !.responses = <<response>>,
                       !.result = SingleRequestResult(fetching.adapter, fetching.options,
                                                      response, fetching.upstream,
                                                      fetching.at, t)]
    /\ UNCHANGED <<regVars, mergeVars, swVars, freshness, clientVars>>

\* the request to the proxy in turn ends.  A proxy that throws is followed
\* by the next one, the last by the aggregated error
ProxyResponds(outcome, delay) ==
    /\ fetching.pc = "request"
    /\ fetching.adapter = "ProductHunt"
    /\ LET i      == fetching.attempts[Len(fetching.attempts)]
           step   == ProxyStep(i, outcome)
           t      == fetching.at + delay
           errors == Append(fetching.errors, step.message)
           seen   == [fetching EXCEPT !.responses = Append(@, outcome), !.readAt = t]
       IN IF step.kind = "throw" /\ i < Len(RSS_PROXIES)
          THEN fetching' = [seen EXCEPT !.errors = errors,
                                        !.attempts = Append(@, i + 1),
                                        !.requests = @ + 1]
          ELSE IF step.kind = "throw"
          THEN fetching' = [seen EXCEPT
                               !.pc = "returned",
                               !.errors = errors,
                               !.message = errors,
                               !.result = FetchSettles(ProductHuntOperation(
                                              fetching.options, "throw", <<>>, t))]
          ELSE fetching' = [seen EXCEPT
                               !.pc = "returned",
                               !.message = IF step.kind = "returnUndefined"
                                           THEN <<"Cannot read properties of undefined">>
                                           ELSE <<>>,
                               !.result = FetchSettles(ProductHuntOperation(
                                              fetching.options, step.kind,
                                              IF outcome = "ok" THEN fetching.upstream
                                              ELSE <<>>, t))]
    /\ UNCHANGED <<regVars, mergeVars, swVars, freshness, clientVars>>

\* the topstories request ends; with the id list at hand the item requests
\* are issued together (Promise.all over none of them resolves at once)
TopStoriesResponds(response) ==
    /\ fetching.pc = "request"
    /\ fetching.adapter = "HackerNews"
    /\ LET seen == [fetching EXCEPT !.responses = <<response>>, !.readAt = fetching.at]
           ids  == HnTopStoryIds(fetching.options,
                                 [k \in DOMAIN fetching.upstream |-> fetching.upstream[k].key])
       IN IF response # "ok"
          THEN fetching' = [seen EXCEPT
                               !.pc = "returned",
                               !.result = FetchSettles([threw |-> TRUE, value |-> <<>>])]
          ELSE IF ids = <<>>
          THEN fetching' = [seen EXCEPT
                               !.pc = "returned",
                               !.result = FetchSettles(HnOperation(fetching.options,
                                                                   "ok", <<>>))]
          ELSE fetching' = [seen EXCEPT !.pc = "details",
                                        !.requested = ids,
                                        !.requests = @ + Len(ids)]
    /\ UNCHANGED <<regVars, mergeVars, swVars, freshness, clientVars>>

\* what /item/<id>.json holds
EntryOf(listing, key) == listing[CHOOSE k \in DOMAIN listing : listing[k].key = key]

\* the item requests have ended
DetailsRespond(details) ==
    /\ fetching.pc = "details"
    /\ LET items == [k \in DOMAIN fetching.requested |->
                        EntryOf(fetching.upstream, fetching.requested[k])]
       IN fetching' = [fetching EXCEPT
                          !.pc = "returned",
                          !.responses = Append(@, details),
                          !.result = FetchSettles(HnOperation(fetching.options,
                                                              details, items))]
    /\ UNCHANGED <<regVars, mergeVars, swVars, freshness, clientVars>>

\* the caller fetches again later; meanwhile the provider has put a new
\* entry in front of its listing
NewEntry(t) == [key |-> 999, date |-> [kind |-> "valid", t |-> t], score |-> 300,
                emptySelf |-> FALSE]

Refetch ==
    /\ fetching.pc = "returned"
    /\ fetching.round = 1
    /\ LET t == fetching.readAt + RefetchAfter IN
       fetching' = [IdleFetching EXCEPT
                       !.pc = "called",
                       !.adapter = fetching.adapter,
                       !.options = fetching.options,
                       !.upstream = <<NewEntry(t)>> \o fetching.upstream,
                       !.at = t,
                       !.round = 2,
                       !.previous = fetching.result.value]
    /\ UNCHANGED <<regVars, mergeVars, swVars, freshness, clientVars>>

\* ---- the adapters as fetchDataByType reaches them
\* mapSourceConfigToOptions(source)
MapSourceConfigToOptions(source) ==
    [count     |-> source.fetchCount,
     minScore  |-> IF source.type = "HackerNews" /\ source.minScore \notin {Absent, 0}
                   THEN source.minScore ELSE Absent,
     url       |-> IF source.type = "RSS" THEN source.url ELSE 0,
     timeRange |-> IF source.type = "RSS" /\ source.url # 0
                   THEN (IF source.fetchTimeRange = "" THEN "7d" ELSE source.fetchTimeRange)
                   ELSE ""]

\* what fetch(options) returns at time t when every request succeeds
FetchedItems(name, options, listing, t) ==
    IF name = "RSS"
    THEN IF options.url = 0 THEN <<>>
         ELSE FetchSettles(RssOperation(options, "ok", listing, t, t)).value
    ELSE IF name = "ProductHunt"
    THEN FetchSettles(ProductHuntOperation(options, "return", listing, t)).value
    ELSE IF name = "HackerNews"
    THEN LET ids == HnTopStoryIds(options, [k \in DOMAIN listing |-> listing[k].key])
         IN FetchSettles(HnOperation(options, "ok",
                [k \in DOMAIN ids |-> EntryOf(listing, ids[k])])).value
    ELSE FetchSettles(KeyedOperation(name, options, "ok", listing)).value

(***************************************************************************)
(* Import of a backup (importData, utils/storage.ts).  A JavaScript value  *)
(* read from the parsed text is [kind, value]: kind "undefined" is a       *)
(* missing property, "null" and "empty" ('' / 0 / false) are the falsy     *)
(* values, "value" is an object or an array (truthy also when empty).      *)
(***************************************************************************)
Truthy(v) == v.kind = "value"

ImportFormats == {"json", "csv"}

\* how JSON.parse(data) ends: it throws, or gives null, a number, or an object
ParseKinds == {"throws", "null", "number", "object"}

\* how one safeStorageSet ends: the entry is written; chrome.storage reports
\* runtime.lastError to the callback, which resolves all the same; or, in
\* the localStorage fallback, setItem throws inside the Promise executor
WriteOutcomes == {"ok", "lost", "throws"}

NoImport == [parse |-> "throws", config |-> [kind |-> "undefined", value |-> ""],
             feeds |-> [kind |-> "undefined", value |-> <<>>]]

IdleImporting == [pc |-> "idle", format |-> "json", data |-> NoImport,
                  result |-> FALSE, configBefore |-> "", feedsBefore |-> <<>>,
                  writes |-> {}]

\* `imported.config` / `imported.feeds` of what JSON.parse gave
ImportedConfig(data) ==
    IF data.parse = "object" THEN data.config ELSE [kind |-> "undefined", value |-> ""]

ImportedFeeds(data) ==
    IF data.parse = "object" THEN data.feeds ELSE [kind |-> "undefined", value |-> <<>>]

\* `return false` of the catch block and of a format other than 'json'
ImportReturns(imp, value) == [imp EXCEPT !.pc = "returned", !.result = value]

\* importData after saveConfig has settled, or was not called
ImportAfterConfig(imp) ==
    IF Truthy(ImportedFeeds(imp.data))
    THEN [imp EXCEPT !.pc = "savingFeeds"]
    ELSE ImportReturns(imp, TRUE)

\* importData(data, format) up to its first await
ImportDataCall ==
    /\ importing.pc = "called"
    /\ importing' =
          IF importing.format # "json" THEN ImportReturns(importing, FALSE)
          ELSE IF importing.data.parse \in {"throws", "null"}
               THEN ImportReturns(importing, FALSE)
          ELSE IF Truthy(ImportedConfig(importing.data))
               THEN [importing EXCEPT !.pc = "savingConfig"]
          ELSE ImportAfterConfig(importing)
    /\ UNCHANGED <<storedConfig, feeds>>

\* `await saveConfig(imported.config)` settles
SaveConfigSettles(outcome) ==
    /\ importing.pc = "savingConfig"
    /\ storedConfig' = IF outcome = "ok" THEN ImportedConfig(importing.data).value
                       ELSE storedConfig
    /\ importing' =
          IF outcome = "throws" THEN ImportReturns(importing, FALSE)
          ELSE ImportAfterConfig(
                  [importing EXCEPT !.writes = IF outcome = "ok" THEN @ \cup {"config"}
                                               ELSE @])
    /\ UNCHANGED feeds

\* `await saveFeeds(imported.feeds)` settles
SaveFeedsSettles(outcome) ==
    /\ importing.pc = "savingFeeds"
    /\ feeds' = IF outcome = "ok" THEN ImportedFeeds(importing.data).value ELSE feeds
    /\ importing' =
          IF outcome = "throws" THEN ImportReturns(importing, FALSE)
          ELSE ImportReturns(
                  [importing EXCEPT !.writes = IF outcome = "ok" THEN @ \cup {"feeds"}
                                               ELSE @], TRUE)
    /\ UNCHANGED storedConfig

(***************************************************************************)
(* utils/xmlParser.ts: ensureArray.  A value the XML parser hands over is  *)
(* [kind, text, elems]: a scalar carries its literal text, an array its    *)
(* elements, an object (a parsed element with children) neither.           *)
(***************************************************************************)
JsUndefined == [kind |-> "undefined", text |-> "", elems |-> <<>>]

JsScalar(kind, text) == [kind |-> kind, text |-> text, elems |-> <<>>]

JsArray(elems) == [kind |-> "array", text |-> "", elems |-> elems]

\* !value
Falsy(value) ==
    \/ value.kind \in {"undefined", "null"}
    \/ value.kind = "string" /\ value.text = ""
    \/ value.kind = "number" /\ value.text \in {"0", "NaN"}
    \/ value.kind = "boolean" /\ value.text = "false"

\* ensureArray(value): the returned array, as the sequence of its elements
EnsureArray(value) ==
    IF Falsy(value) THEN <<>>
    ELSE IF value.kind = "array" THEN value.elems
    ELSE <<value>>

IdleEnsuring == [pc |-> "idle", value |-> JsUndefined, result |-> <<>>]

EnsureArrayCall ==
    /\ ensuring.pc = "called"
    /\ ensuring' = [ensuring EXCEPT !.pc = "returned",
                                    !.result = EnsureArray(ensuring.value)]

(***************************************************************************)
(* The AI service (first half of services/aiService.ts): callLLM.  An      *)
(* error message is the sequence of the phrases it is made of, and         *)
(* String.includes is membership of a phrase.                              *)
(***************************************************************************)
MAX_RETRIES_DEFAULT == 3

RETRY_DELAY_DEFAULT == 1000

MaxRetriesOf(options) ==
    IF options.maxRetries = Absent THEN MAX_RETRIES_DEFAULT ELSE options.maxRetries

RetryDelayOf(options) ==
    IF options.retryDelay = Absent THEN RETRY_DELAY_DEFAULT ELSE options.retryDelay

\* isNetworkError's networkErrorMessages
NetworkErrorMessages ==
    {"Failed to fetch", "Network request failed", "NetworkError",
     "ERR_INTERNET_DISCONNECTED", "ERR_NETWORK_CHANGED"}

\* isNetworkError(error): some listed phrase occurs in error.message
IsNetworkError(message) == \E k \in DOMAIN message : message[k] \in NetworkErrorMessages

\* how one fetch of the API ends.  "http" is a response with !response.ok,
\* whose body gives error.message (`body`) or cannot be parsed ("")
LlmResponseKinds == {"content", "noChoices", "badJson", "http", "networkError", "aborted"}

\* errorDetail: `HTTP ${status}`, or the message of the error body
ErrorDetail(response) ==
    IF response.body = "" THEN <<"HTTP <status>">> ELSE <<response.body>>

\* the message of the error the try block raises for a response
LlmErrorMessage(response) ==
    IF response.kind = "http" THEN <<"API request failed">> \o ErrorDetail(response)
    ELSE IF response.kind = "networkError" THEN <<"Failed to fetch">>
    ELSE IF response.kind = "badJson" THEN <<"Unexpected token">>
    ELSE <<"The user aborted a request.">>

\* what callLLM does with a response: "return", "retry" (sleep, then the
\* next attempt) or "throw"
LlmDecision(response, attempt, maxRetries) ==
    IF response.kind \in {"content", "noChoices"} THEN "return"
    ELSE IF response.kind = "http" /\ response.status = 429 /\ attempt < maxRetries
    THEN "retry"
    ELSE IF response.kind = "http" /\ response.status >= 500 /\ attempt < maxRetries
    THEN "retry"
    ELSE IF IsNetworkError(LlmErrorMessage(response)) /\ attempt < maxRetries
    THEN "retry"
    ELSE "throw"

NoLlmOptions == [maxRetries |-> Absent, retryDelay |-> Absent]

IdleLlm == [pc |-> "idle", options |-> NoLlmOptions, attempt |-> 0, requests |-> 0,
            responses |-> <<>>, delays |-> <<>>, result |-> "none"]

\* callLLM(prompt, config, options) up to its first await: the loop test,
\* then the first fetch
CallLLM ==
    /\ llm.pc = "called"
    /\ llm' = IF 0 <= MaxRetriesOf(llm.options)
              THEN [llm EXCEPT !.pc = "fetch", !.requests = 1]
              ELSE [llm EXCEPT !.pc = "threw", !.result = "error"]

\* the fetch of the current attempt settles
LlmResponds(response) ==
    /\ llm.pc = "fetch"
    /\ LET decision == LlmDecision(response, llm.attempt, MaxRetriesOf(llm.options))
           seen == [llm EXCEPT !.responses = Append(@, response)]
       IN llm' =
            IF decision = "return"
            THEN [seen EXCEPT !.pc = "returned",
                              !.result = IF response.kind = "content" THEN "content"
                                         ELSE "null"]
            ELSE IF decision = "retry"
            THEN [seen EXCEPT !.pc = "sleep",
                              !.delays = Append(@, RetryDelayOf(llm.options)
                                                     * (llm.attempt + 1))]
            ELSE [seen EXCEPT !.pc = "threw", !.result = "error"]

\* the sleep is over: `continue`, attempt++, the next fetch
LlmWakes ==
    /\ llm.pc = "sleep"
    /\ llm' = [llm EXCEPT !.pc = "fetch", !.attempt = @ + 1, !.requests = @ + 1]

(***************************************************************************)
(* The side panel: useSmartRefresh (hooks/useSmartRefresh.ts) and the      *)
(* favourites store (stores/favoriteStore.ts)                              *)
(***************************************************************************)
IdleHook == [ref |-> FALSE,
             exec |-> [pc |-> "idle", strategy |-> "none"],
             manual |-> [pc |-> "idle"]]

(***************************************************************************)
(* The favourites store (a zustand store).  `favorites` is the Map in     *)
(* insertion order, each entry with its id, tags and category (isFavorite *)
(* is always true, the two timestamps are left out); `persisted` is the    *)
(* array under the storage key 'favorites'; `writes` are the              *)
(* chrome.storage.local.set calls issued and not settled yet, which the    *)
(* storage area settles in the order they were issued, each with the call  *)
(* that awaits it (0: nobody does); `calls` are the calls of              *)
(* toggleFavorite, setFavorite and regenerateTags so far, `settled` the    *)
(* call that returned or threw in the last step (0: none did).             *)
(***************************************************************************)
IdleFavoriteStore == [favorites |-> <<>>, persisted |-> <<>>, writes |-> <<>>,
                      calls |-> <<>>, settled |-> 0]

\* favorites.get(id) is defined
FavoritesHas(list, id) == \E i \in DOMAIN list : list[i].id = id

\* newFavorites.delete(id)
FavoritesDelete(list, id) ==
    LET Keep(entry) == entry.id # id IN SelectSeq(list, Keep)

\* newFavorites.set(id, entry): a key the Map holds keeps its place
FavoritesSet(list, entry) ==
    IF FavoritesHas(list, entry.id)
    THEN [i \in DOMAIN list |-> IF list[i].id = entry.id THEN entry ELSE list[i]]
    ELSE Append(list, entry)

NewFavorite(id) == [id |-> id, tags |-> <<>>, category |-> "Other"]

\* what generateTags(content, true) resolves with
GeneratedTags == [tags |-> <<"AI">>, category |-> "Technology"]

\* updateTags(id, tags, category): the Map afterwards
UpdateTags(list, id, result) ==
    IF FavoritesHas(list, id)
    THEN FavoritesSet(list, [id |-> id, tags |-> result.tags,
                              category |-> result.category])
    ELSE list

\* saveToStorage(): the snapshot of the Map goes to storage
SaveToStorage(store, list, awaitedBy) ==
    Append(store.writes, [list |-> list, call |-> awaitedBy])

\* the calls whose tag generation for `id` has not completed record whether
\* the item is un-favourited at present
NoteFavorite(calls, id, isFavorite) ==
    [n \in DOMAIN calls |->
        IF /\ calls[n].id = id
           /\ calls[n].generate
           /\ calls[n].pc \in {"saveToStorage", "import", "generateTags"}
        THEN [calls[n] EXCEPT !.unfavorited = ~isFavorite]
        ELSE calls[n]]

\* toggleFavorite(id, content, generateTags) up to `await get().saveToStorage()`
ToggleFavorite(id, generateTags) ==
    /\ Len(favoriteStore.calls) < MaxCalls
    /\ LET existing == FavoritesHas(favoriteStore.favorites, id)
           list == IF existing THEN FavoritesDelete(favoriteStore.favorites, id)
                   ELSE FavoritesSet(favoriteStore.favorites, NewFavorite(id))
           n == Len(favoriteStore.calls) + 1
       IN favoriteStore' =
             [favoriteStore EXCEPT
                !.favorites = list,
                !.writes = SaveToStorage(favoriteStore, list, n),
                !.calls = Append(NoteFavorite(@, id, ~existing),
                                 [op |-> "toggleFavorite", id |-> id,
                                  pc |-> "saveToStorage",
                                  generate |-> ~existing /\ generateTags,
                                  unfavorited |-> FALSE]),
                !.settled = 0]

\* setFavorite(id, isFavorite), the whole call: the save is not awaited
SetFavorite(id, isFavorite) ==
    /\ Len(favoriteStore.calls) < MaxCalls
    /\ LET list == IF isFavorite
                   THEN FavoritesSet(favoriteStore.favorites, NewFavorite(id))
                   ELSE FavoritesDelete(favoriteStore.favorites, id)
       IN favoriteStore' =
             [favoriteStore EXCEPT
                !.favorites = list,
                !.writes = SaveToStorage(favoriteStore, list, 0),
                !.calls = Append(NoteFavorite(@, id, isFavorite),
                                 [op |-> "setFavorite", id |-> id, pc |-> "done",
                                  generate |-> FALSE, unfavorited |-> FALSE]),
                !.settled = Len(favoriteStore.calls) + 1]

\* regenerateTags(id, content) up to `await import(...)`
RegenerateTags(id) ==
    /\ Len(favoriteStore.calls) < MaxCalls
    /\ favoriteStore' =
          [favoriteStore EXCEPT
             !.calls = Append(@, [op |-> "regenerateTags", id |-> id, pc |-> "import",
                                  generate |-> TRUE,
                                  unfavorited |-> ~FavoritesHas(favoriteStore.favorites, id)]),
             !.settled = 0]

\* the oldest chrome.storage.local.set settles; a toggleFavorite awaiting it
\* resumes, and either returns or calls regenerateTags
StorageSetSettles ==
    /\ favoriteStore.writes # <<>>
    /\ LET write == Head(favoriteStore.writes)
           returns == write.call # 0 /\ ~favoriteStore.calls[write.call].generate
       IN favoriteStore' =
             [favoriteStore EXCEPT
                !.persisted = write.list,
                !.writes = Tail(@),
                !.calls = IF write.call = 0 THEN @
                          ELSE [@ EXCEPT ![write.call].pc =
                                   IF returns THEN "done" ELSE "import"],
                !.settled = IF returns THEN write.call ELSE 0]

\* the dynamic import settles: regenerateTags calls generateTags(content, true)
ImportSettles(n) ==
    /\ n \in DOMAIN favoriteStore.calls
    /\ favoriteStore.calls[n].pc = "import"
    /\ favoriteStore' = [favoriteStore EXCEPT !.calls[n].pc = "generateTags",
                                             !.settled = 0]

\* generateTags settles: with a result regenerateTags calls updateTags and
\* returns, with an error it rethrows; a toggleFavorite awaiting it settles
\* the same way
GenerateTagsSettles(n, outcome) ==
    /\ n \in DOMAIN favoriteStore.calls
    /\ favoriteStore.calls[n].pc = "generateTags"
    /\ IF outcome = "rejected"
       THEN favoriteStore' = [favoriteStore EXCEPT !.calls[n].pc = "threw",
                                                   !.settled = n]
       ELSE LET id == favoriteStore.calls[n].id
                list == UpdateTags(favoriteStore.favorites, id, GeneratedTags)
            IN favoriteStore' =
                  [favoriteStore EXCEPT
                     !.favorites = list,
                     !.writes = IF FavoritesHas(favoriteStore.favorites, id)
                                THEN SaveToStorage(favoriteStore, list, 0)
                                ELSE @,
                     !.calls[n].pc = "done",
                     !.settled = n]

\* no DataMetadata entry in storage
NoMetadata == [lastUpdateTime |-> 0, lastUpdateDate |-> 0]

\* getDataMetadata(): the stored entry, or null when there is none
StoredMetadata(entry) ==
    IF entry = NoMetadata THEN NullMetadata
    ELSE [isNull |-> FALSE, hasTime |-> entry.lastUpdateTime # 0,
          lastUpdateTime |-> entry.lastUpdateTime,
          lastUpdateDate |-> entry.lastUpdateDate]

Senders == {"exec", "manual"}

\* the invocation of the REFRESH_DATA branch that a sender's message starts
MessageOf(sender) == IF sender = "exec" THEN "message" ELSE "manualMessage"

\* executeStrategy after `await checkFreshness()`: SILENT_REFRESH and
\* FORCE_REFRESH start doRefresh(), whatever isRefreshingRef holds by now
StartsRefresh(ref, strategy) == strategy # "immediate"

\* executeStrategy() up to `await checkFreshness()`
ExecuteStrategyCall ==
    /\ hook.exec.pc = "idle"
    /\ hook' = IF hook.ref THEN [hook EXCEPT !.exec.pc = "returned"]
               ELSE [hook EXCEPT !.exec.pc = "checkFreshness"]
    /\ UNCHANGED swVars

\* checkFreshness resumes from getDataMetadata, executeStrategy switches on
\* the strategy; doRefresh sends REFRESH_DATA and the service worker's
\* listener runs up to refreshData's first await
CheckFreshnessResumes ==
    /\ hook.exec.pc = "checkFreshness"
    /\ LET strategy == GetRefreshStrategy(StoredMetadata(dataMetadata), now) IN
       IF StartsRefresh(hook.ref, strategy)
       THEN /\ hook' = [hook EXCEPT !.ref = TRUE,
                                    !.exec = [pc |-> "doRefresh", strategy |-> strategy]]
            /\ Deliver("message")
       ELSE /\ hook' = [hook EXCEPT !.exec = [pc |-> "returned", strategy |-> strategy]]
            /\ UNCHANGED swVars

\* manualRefresh() up to `await doRefresh()`, the listener as above
ManualRefreshCall ==
    /\ hook.manual.pc = "idle"
    /\ IF hook.ref
       THEN /\ hook' = [hook EXCEPT !.manual.pc = "returned"]
            /\ UNCHANGED swVars
       ELSE /\ hook' = [hook EXCEPT !.ref = TRUE, !.manual.pc = "doRefresh"]
            /\ Deliver("manualMessage")

\* the response to a sender's message arrives: doRefresh starts its 500 ms wait
ResponseArrives(sender) ==
    /\ hook[sender].pc = "doRefresh"
    /\ runs[MessageOf(sender)].responded
    /\ hook' = [hook EXCEPT ![sender].pc = "wait"]
    /\ UNCHANGED swVars

\* doRefresh returns: isRefreshingRef.current = false
DoRefreshReturns(sender) ==
    /\ hook[sender].pc = "wait"
    /\ hook' = [hook EXCEPT !.ref = FALSE, ![sender].pc = "returned"]
    /\ UNCHANGED swVars

(***************************************************************************)
(* Specifications                                                          *)
(***************************************************************************)
IdleRegOp == [op |-> "none", name |-> "", adapter |-> NoAdapter, threw |-> FALSE,
              had |-> NoAdapter]

IdleMerge == [pc |-> "idle", sources |-> <<>>, results |-> <<>>,
              allItems |-> <<>>, out |-> <<>>]

ClientsIdle ==
    /\ storedConfig = "defaultConfig"
    /\ importing = IdleImporting
    /\ ensuring = IdleEnsuring
    /\ llm = IdleLlm
    /\ hook = IdleHook
    /\ favoriteStore = IdleFavoriteStore

UnitsIdle ==
    /\ freshness = IdleFreshness
    /\ fetching = IdleFetching
    /\ ClientsIdle

RegistryIdle ==
    /\ regOp = IdleRegOp
    /\ call = IdleCall
    /\ many = IdleMany

ServiceWorkerIdle ==
    /\ forceRefresh = FALSE
    /\ cache = [k \in CacheKeys |-> NoEntry]
    /\ feeds = <<>>
    /\ lastUpdate = 0
    /\ dataMetadata = NoMetadata
    /\ now = CACHE_DURATION
    /\ pending = 0
    /\ runs = [h \in Callers |-> IdleRun]

\* ---- the registry, empty after class initialisation, and its callers
InitRegistry ==
    /\ sources = {}
    /\ RegistryIdle
    /\ merge = IdleMerge
    /\ ServiceWorkerIdle
    /\ UnitsIdle

NextRegistry ==
    \/ \E a \in Adapters : Register(a) /\ UNCHANGED <<mergeVars, swVars, unitVars>>
    \/ \E n \in SourceNames : Unregister(n) /\ UNCHANGED <<mergeVars, swVars, unitVars>>
    \/ Clear /\ UNCHANGED <<mergeVars, swVars, unitVars>>
    \/ \E n \in SourceNames : FetchFromCall(n) /\ UNCHANGED <<mergeVars, swVars, unitVars>>
    \/ FetchFromReturn /\ UNCHANGED <<mergeVars, swVars, unitVars>>
    \/ \E names \in SeqsUpTo(SourceNames, MaxNames) :
          FetchFromManyCall(names) /\ UNCHANGED <<mergeVars, swVars, unitVars>>
    \/ \E i \in 1..MaxNames : FetchFromManySettle(i) /\ UNCHANGED <<mergeVars, swVars, unitVars>>

SpecRegistry == InitRegistry /\ [][NextRegistry]_vars

\* ---- the service worker after the source modules were imported; every
\* cache entry is absent, or was written 30 minutes ago to the millisecond,
\* or one millisecond less than 30 minutes ago
InitCacheEntries(source) ==
    IF source.id = "github-trending"
    THEN {NoEntry} \cup
         {[present |-> TRUE, items |-> StaleItems(source), timestamp |-> ts] :
             ts \in {0, 1}}
    ELSE IF source.enabled
    THEN {NoEntry, [present |-> TRUE, items |-> StaleItems(source), timestamp |-> 1]}
    ELSE {[present |-> TRUE, items |-> StaleItems(source), timestamp |-> 1]}

Init ==
    /\ sources = AutoRegistered
    /\ RegistryIdle
    /\ merge = IdleMerge
    /\ forceRefresh = FALSE
    /\ cache \in [CacheKeys -> UNION {InitCacheEntries(ConfigSources[i]) :
                                        i \in DOMAIN ConfigSources}]
    /\ \A i \in DOMAIN ConfigSources :
          cache[CacheKey(ConfigSources[i])] \in InitCacheEntries(ConfigSources[i])
    /\ feeds = <<>>
    /\ lastUpdate = 0
    /\ dataMetadata = NoMetadata
    /\ now = CACHE_DURATION
    /\ pending = MaxHandlers
    /\ runs = [h \in Callers |-> IdleRun]
    /\ UnitsIdle

Next ==
    \/ \E h \in Handlers : Deliver(h) /\ UNCHANGED <<regVars, mergeVars, unitVars>>
    \/ InitializeData /\ UNCHANGED <<regVars, mergeVars, unitVars>>
    \/ \E h \in Handlers : StartFetchAll(h) /\ UNCHANGED <<regVars, mergeVars, unitVars>>
    \/ \E h \in Handlers, i \in DOMAIN ConfigSources :
          TaskResume(h, i) /\ UNCHANGED <<regVars, mergeVars, unitVars>>
    \/ \E h \in Handlers, i \in DOMAIN ConfigSources :
          TaskFetched(h, i) /\ UNCHANGED <<regVars, mergeVars, unitVars>>
    \/ \E h \in Handlers : AfterSaveFeeds(h) /\ UNCHANGED <<regVars, mergeVars, unitVars>>
    \/ \E h \in Handlers : AfterUpdateLastUpdate(h) /\ UNCHANGED <<regVars, mergeVars, unitVars>>
    \/ \E h \in Handlers : AfterRefreshData(h) /\ UNCHANGED <<regVars, mergeVars, unitVars>>
    \/ Tick /\ UNCHANGED <<regVars, mergeVars, unitVars>>

Spec == Init /\ [][Next]_vars

\* ---- one fetchAllData call over three configured sources whose
\* fetchDataByType promises have settled in every possible way
MergeIds == <<"s1", "s2", "s3">>

PublishedAtValues == {<<>>, <<1>>, <<2>>}

ItemLists(id) ==
    {[k \in DOMAIN dates |-> [id |-> <<id, k>>, publishedAt |-> dates[k]]] :
        dates \in SeqsUpTo(PublishedAtValues, MaxPerSource)}

SettledResults(id) ==
    {[status |-> "rejected", value |-> <<>>]} \cup
    {[status |-> "fulfilled", value |-> items] : items \in ItemLists(id)}

MergeInputs(id) ==
    {[source |-> [id |-> id, type |-> "RSS", enabled |-> TRUE, isPinned |-> pin],
      result |-> r] : pin \in PinValues, r \in SettledResults(id)}
    \cup
    {[source |-> [id |-> id, type |-> "RSS", enabled |-> FALSE, isPinned |-> "undefined"],
      result |-> [status |-> "rejected", value |-> <<>>]]}

InitMerge ==
    /\ sources = AutoRegistered
    /\ RegistryIdle
    /\ ServiceWorkerIdle
    /\ UnitsIdle
    /\ \E in1 \in MergeInputs(MergeIds[1]), in2 \in MergeInputs(MergeIds[2]),
          in3 \in MergeInputs(MergeIds[3]) :
          LET ins == <<in1, in2, in3>> IN
          merge = [pc |-> "settled",
                   sources |-> [i \in 1..3 |-> ins[i].source],
                   results |-> [i \in 1..3 |-> ins[i].result],
                   allItems |-> <<>>, out |-> <<>>]

\* fetchAllData from the resolution of Promise.allSettled to its return
FetchAllDataMerge ==
    /\ merge.pc = "settled"
    /\ LET all     == merge.sources
           idx     == SelectSeq([i \in DOMAIN all |-> i], LAMBDA i : all[i].enabled)
           enabled == EnabledSources(all)
           results == [k \in DOMAIN idx |-> merge.results[idx[k]]]
       IN merge' = [merge EXCEPT !.pc = "returned",
                                 !.allItems = ConcatResults(enabled, results),
                                 !.out = FetchAllDataResult(enabled, results)]
    /\ UNCHANGED <<regVars, swVars, unitVars>>

NextMerge == FetchAllDataMerge

SpecMerge == InitMerge /\ [][NextMerge]_vars

\* ---- fetchFromMany and one handler of the service worker side by side,
\* on a fresh installation (no cache entry yet)
InitOrder ==
    /\ sources = AutoRegistered
    /\ RegistryIdle
    /\ merge = IdleMerge
    /\ forceRefresh = FALSE
    /\ cache = [k \in CacheKeys |-> NoEntry]
    /\ feeds = <<>>
    /\ lastUpdate = 0
    /\ dataMetadata = NoMetadata
    /\ now = CACHE_DURATION
    /\ pending = 1
    /\ runs = [h \in Callers |-> IdleRun]
    /\ UnitsIdle

NextOrder ==
    \/ \E names \in SeqsUpTo(SourceNames, MaxNames) :
          FetchFromManyCall(names) /\ UNCHANGED <<mergeVars, swVars, unitVars>>
    \/ \E i \in 1..MaxNames : FetchFromManySettle(i) /\ UNCHANGED <<mergeVars, swVars, unitVars>>
    \/ Next

SpecOrder == InitOrder /\ [][NextOrder]_vars

\* ---- getRefreshStrategy over metadata of every shape, asked just after
\* midnight, at noon and in the last millisecond of a day
Midnight == 10 * DAY_MS

ClockValues == {Midnight + 5000, Midnight + (DAY_MS \div 2), Midnight + DAY_MS - 1}

AgeValues ==
    {0, 5000, 15000, 5 * 60 * 1000, 10 * 60 * 1000,
     SILENT_THRESHOLD_MS - 1, SILENT_THRESHOLD_MS, SILENT_THRESHOLD_MS + 1,
     45 * 60 * 1000,
     FORCE_THRESHOLD_MS - 1, FORCE_THRESHOLD_MS, FORCE_THRESHOLD_MS + 1,
     7 * 60 * 60 * 1000, DAY_MS + 5000}

MetadataValues(t) ==
    {NullMetadata} \cup
    {[isNull |-> FALSE, hasTime |-> FALSE, lastUpdateTime |-> 0, lastUpdateDate |-> d] :
        d \in {DateOf(t) - 1, DateOf(t)}} \cup
    {[isNull |-> FALSE, hasTime |-> TRUE, lastUpdateTime |-> 0, lastUpdateDate |-> d] :
        d \in {DateOf(t) - 1, DateOf(t)}} \cup
    UNION {{[isNull |-> FALSE, hasTime |-> TRUE, lastUpdateTime |-> t - age,
             lastUpdateDate |-> d] :
               d \in {DateOf(t) - 1, DateOf(t), DateOf(t - age)}} : age \in AgeValues}

InitFreshness ==
    /\ sources = AutoRegistered
    /\ RegistryIdle
    /\ merge = IdleMerge
    /\ ServiceWorkerIdle
    /\ fetching = IdleFetching
    /\ ClientsIdle
    /\ \E t \in ClockValues : \E m \in MetadataValues(t) :
          freshness = [pc |-> "called", metadata |-> m, now |-> t, strategy |-> "none"]

NextFreshness == GetRefreshStrategyCall

SpecFreshness == InitFreshness /\ [][NextFreshness]_vars

\* ---- the full refresh, on a fresh installation: the handlers of the
\* service worker and a caller of triggerRefresh
InitRefresh ==
    /\ sources = AutoRegistered
    /\ RegistryIdle
    /\ merge = IdleMerge
    /\ forceRefresh = FALSE
    /\ cache = [k \in CacheKeys |-> NoEntry]
    /\ feeds = <<>>
    /\ lastUpdate = 0
    /\ dataMetadata = NoMetadata
    /\ now = CACHE_DURATION
    /\ pending = MaxHandlers
    /\ runs = [h \in Callers |-> IdleRun]
    /\ UnitsIdle

NextRefresh ==
    \/ TriggerRefresh /\ UNCHANGED <<regVars, mergeVars, unitVars>>
    \/ \E i \in DOMAIN ConfigSources :
          TaskResume("trigger", i) /\ UNCHANGED <<regVars, mergeVars, unitVars>>
    \/ \E i \in DOMAIN ConfigSources :
          TaskFetched("trigger", i) /\ UNCHANGED <<regVars, mergeVars, unitVars>>
    \/ AfterSaveFeeds("trigger") /\ UNCHANGED <<regVars, mergeVars, unitVars>>
    \/ AfterUpdateLastUpdate("trigger") /\ UNCHANGED <<regVars, mergeVars, unitVars>>
    \/ Next

SpecRefresh == InitRefresh /\ [][NextRefresh]_vars

\* ---- one adapter, called twice by one caller, against every way its
\* requests can end
DaySeconds == 24 * 60 * 60

\* Date.now() at the first call
FirstCallAt == 40 * DaySeconds

ValidDate(t) == [kind |-> "valid", t |-> t]

\* what a feed says about an entry's publication: now, 2, 7 and 10 days
\* ago, nothing, something Date cannot parse, something the XML parser
\* delivers as an object instead of a string
RssDates ==
    {ValidDate(FirstCallAt), ValidDate(FirstCallAt - 2 * DaySeconds),
     ValidDate(FirstCallAt - 7 * DaySeconds), ValidDate(FirstCallAt - 10 * DaySeconds),
     [kind |-> "absent", t |-> 0], [kind |-> "unparseable", t |-> 0],
     [kind |-> "object", t |-> 0]}

RssListings ==
    {[k \in DOMAIN dates |->
         [key |-> k, date |-> dates[k], score |-> 0, emptySelf |-> FALSE]] :
        dates \in SeqsUpTo(RssDates, MaxEntries)}

RssOptions ==
    {[count |-> c, minScore |-> Absent, url |-> u, timeRange |-> w] :
        c \in {Absent, 0, 1, 2}, u \in {1}, w \in {"", "1d", "3d", "7d", "30d"}}
    \cup {NoOptions}

\* three entries; the second is a self post without text and carries no
\* usable date
KeyedListings ==
    LET e1 == [key |-> 1, date |-> ValidDate(FirstCallAt - 60), score |-> 10,
               emptySelf |-> FALSE]
        e2 == [key |-> 2, date |-> [kind |-> "absent", t |-> 0], score |-> 20,
               emptySelf |-> TRUE]
        e3 == [key |-> 3, date |-> ValidDate(FirstCallAt - 120), score |-> 30,
               emptySelf |-> FALSE]
    IN {<<>>, <<e1>>, <<e1, e2, e3>>}

KeyedOptions ==
    {[count |-> c, minScore |-> Absent, url |-> 0, timeRange |-> ""] :
        c \in {Absent, 1, 2}}

\* the top stories: n ids, their scores around the default threshold
HnListings ==
    {[k \in 1..n |->
         [key |-> k, date |-> ValidDate(FirstCallAt - k),
          score |-> IF k % 3 = 0 THEN 250 ELSE IF k % 3 = 1 THEN 100 ELSE 99,
          emptySelf |-> FALSE]] : n \in {0, 2, 7, MaxStories}}

HnOptions ==
    {[count |-> c, minScore |-> m, url |-> 0, timeRange |-> ""] :
        c \in {Absent, 0, 1, 2, 34}, m \in {Absent, 0, 150}}

AdapterInputs(name) ==
    IF name = "RSS" THEN RssOptions \X RssListings
    ELSE IF name = "HackerNews" THEN HnOptions \X HnListings
    ELSE IF name = "ProductHunt" THEN KeyedOptions \X (KeyedListings \ {<<>>})
    ELSE KeyedOptions \X KeyedListings

InitAdapters ==
    /\ sources = AutoRegistered
    /\ RegistryIdle
    /\ merge = IdleMerge
    /\ ServiceWorkerIdle
    /\ freshness = IdleFreshness
    /\ ClientsIdle
    /\ \E name \in AdapterNames : \E in \in AdapterInputs(name) :
          fetching = [IdleFetching EXCEPT !.pc = "called", !.adapter = name,
                                          !.options = in[1], !.upstream = in[2],
                                          !.at = FirstCallAt, !.round = 1]

NextAdapters ==
    \/ AdapterStart
    \/ \E response \in ResponseKinds, delay \in 0..MaxDelay :
          SingleResponds(response, delay)
    \/ \E outcome \in ProxyOutcomes, delay \in 0..MaxDelay :
          ProxyResponds(outcome, delay)
    \/ \E response \in ResponseKinds : TopStoriesResponds(response)
    \/ \E details \in DetailKinds : DetailsRespond(details)
    \/ Refetch

SpecAdapters == InitAdapters /\ [][NextAdapters]_vars

\* ---- one fetchAllData call over two configured sources of any type,
\* every request of every adapter succeeding (no cache entry is fresh)
ProviderListing(type, url) ==
    LET e1 == [key |-> 1, date |-> ValidDate(FirstCallAt - 60), score |-> 250,
               emptySelf |-> FALSE]
        e2 == [key |-> 2, date |-> ValidDate(FirstCallAt - 120), score |-> 150,
               emptySelf |-> FALSE]
    IN IF type = "RSS" /\ url = 2 THEN <<e2>> ELSE <<e1, e2>>

IdsTypes == {"GitHub", "HackerNews", "ProductHunt", "RSS"}

IdsConfigs(id) ==
    {[id |-> id, type |-> type, enabled |-> enabled, isPinned |-> pin,
      url |-> IF type = "RSS" THEN url ELSE 0, fetchCount |-> MaxPerSource,
      minScore |-> IF type = "HackerNews" THEN 100 ELSE Absent,
      fetchTimeRange |-> ""] :
        type \in IdsTypes, enabled \in BOOLEAN, pin \in {"true", "undefined"},
        url \in {1, 2}}

InitIds ==
    /\ sources = AutoRegistered
    /\ RegistryIdle
    /\ ServiceWorkerIdle
    /\ UnitsIdle
    /\ \E c1 \in IdsConfigs(MergeIds[1]), c2 \in IdsConfigs(MergeIds[2]) :
       \E d \in 0..MaxDelay :
          LET cs == <<c1, c2>>
              at == <<FirstCallAt, FirstCallAt + d>>
          IN merge = [pc |-> "settled",
                      sources |-> cs,
                      results |-> [i \in 1..2 |->
                          [status |-> "fulfilled",
                           value |-> FetchedItems(cs[i].type,
                                        MapSourceConfigToOptions(cs[i]),
                                        ProviderListing(cs[i].type, cs[i].url),
                                        at[i])]],
                      allItems |-> <<>>, out |-> <<>>]

NextIds == FetchAllDataMerge

SpecIds == InitIds /\ [][NextIds]_vars

\* ---- importData over every shape of backup text, beside stored
\* configuration and feeds of an earlier session
StoredConfigs == {"defaultConfig", "configA"}

StoredFeeds == {<<>>, UpstreamItems("GitHub")}

JsConfigs ==
    {[kind |-> "undefined", value |-> ""], [kind |-> "null", value |-> ""],
     [kind |-> "value", value |-> "configA"], [kind |-> "value", value |-> "configB"]}

JsFeeds ==
    {[kind |-> "undefined", value |-> <<>>], [kind |-> "empty", value |-> <<>>],
     [kind |-> "value", value |-> <<>>],
     [kind |-> "value", value |-> UpstreamItems("HackerNews")]}

ImportTexts ==
    {[parse |-> p, config |-> NoImport.config, feeds |-> NoImport.feeds] :
        p \in ParseKinds \ {"object"}} \cup
    {[parse |-> "object", config |-> c, feeds |-> f] : c \in JsConfigs, f \in JsFeeds}

InitImport ==
    /\ sources = AutoRegistered
    /\ RegistryIdle
    /\ merge = IdleMerge
    /\ forceRefresh = FALSE
    /\ cache = [k \in CacheKeys |-> NoEntry]
    /\ lastUpdate = 0
    /\ dataMetadata = NoMetadata
    /\ now = CACHE_DURATION
    /\ pending = 0
    /\ runs = [h \in Callers |-> IdleRun]
    /\ freshness = IdleFreshness
    /\ fetching = IdleFetching
    /\ ensuring = IdleEnsuring
    /\ llm = IdleLlm
    /\ hook = IdleHook
    /\ favoriteStore = IdleFavoriteStore
    /\ storedConfig \in StoredConfigs
    /\ feeds \in StoredFeeds
    /\ \E format \in ImportFormats, data \in ImportTexts :
          importing = [IdleImporting EXCEPT !.pc = "called", !.format = format,
                                            !.data = data,
                                            !.configBefore = storedConfig,
                                            !.feedsBefore = feeds]

NextImport ==
    \/ ImportDataCall /\ UNCHANGED exceptImport
    \/ \E outcome \in WriteOutcomes :
          SaveConfigSettles(outcome)
             /\ UNCHANGED exceptImport
    \/ \E outcome \in WriteOutcomes :
          SaveFeedsSettles(outcome)
             /\ UNCHANGED exceptImport

SpecImport == InitImport /\ [][NextImport]_vars

\* ---- ensureArray over what fast-xml-parser gives for a tag: nothing, a
\* scalar (text is kept as a string, an empty element is ''), an object, or
\* an array of these
MaxElems == 2

XmlScalars ==
    {JsUndefined, JsScalar("null", "null"), JsScalar("string", ""),
     JsScalar("string", "a"), JsScalar("number", "0"), JsScalar("number", "7"),
     JsScalar("boolean", "false"), JsScalar("boolean", "true"),
     JsScalar("object", "")}

XmlValues == XmlScalars \cup {JsArray(elems) : elems \in SeqsUpTo(XmlScalars, MaxElems)}

InitXml ==
    /\ sources = AutoRegistered
    /\ RegistryIdle
    /\ merge = IdleMerge
    /\ ServiceWorkerIdle
    /\ freshness = IdleFreshness
    /\ fetching = IdleFetching
    /\ storedConfig = "defaultConfig"
    /\ importing = IdleImporting
    /\ llm = IdleLlm
    /\ hook = IdleHook
    /\ favoriteStore = IdleFavoriteStore
    /\ \E value \in XmlValues :
          ensuring = [IdleEnsuring EXCEPT !.pc = "called", !.value = value]

NextXml ==
    EnsureArrayCall
       /\ UNCHANGED exceptEnsuring

SpecXml == InitXml /\ [][NextXml]_vars

\* ---- the service worker on a fresh installation, reading a stored
\* configuration that is well-formed or not; every continuation that is
\* ready is eventually run by the event loop and every request settles,
\* while the browser need not deliver another event
WorkerConfigs == {"defaultConfig", "malformed"}

InitWorker ==
    /\ sources = AutoRegistered
    /\ RegistryIdle
    /\ merge = IdleMerge
    /\ forceRefresh = FALSE
    /\ cache = [k \in CacheKeys |-> NoEntry]
    /\ feeds = <<>>
    /\ lastUpdate = 0
    /\ dataMetadata = NoMetadata
    /\ now = CACHE_DURATION
    /\ pending = MaxHandlers
    /\ runs = [h \in Callers |-> IdleRun]
    /\ freshness = IdleFreshness
    /\ fetching = IdleFetching
    /\ storedConfig \in WorkerConfigs
    /\ importing = IdleImporting
    /\ ensuring = IdleEnsuring
    /\ llm = IdleLlm
    /\ hook = IdleHook
    /\ favoriteStore = IdleFavoriteStore

\* the continuations of the handlers other than the tasks of fetchAllData
HandlerSteps ==
    \/ InitializeData /\ UNCHANGED <<regVars, mergeVars, unitVars>>
    \/ \E h \in Handlers : StartFetchAll(h) /\ UNCHANGED <<regVars, mergeVars, unitVars>>
    \/ \E h \in Handlers : AfterSaveFeeds(h) /\ UNCHANGED <<regVars, mergeVars, unitVars>>
    \/ \E h \in Handlers : AfterUpdateLastUpdate(h) /\ UNCHANGED <<regVars, mergeVars, unitVars>>
    \/ \E h \in Handlers : AfterRefreshData(h) /\ UNCHANGED <<regVars, mergeVars, unitVars>>

\* the tasks of fetchAllData: a storage read or an adapter's fetch settles
TaskSteps ==
    \/ \E h \in Handlers, i \in 1..Len(ConfigSources) :
          TaskResume(h, i) /\ UNCHANGED <<regVars, mergeVars, unitVars>>
    \/ \E h \in Handlers, i \in 1..Len(ConfigSources) :
          TaskFetched(h, i) /\ UNCHANGED <<regVars, mergeVars, unitVars>>

\* the guards of TaskResume and TaskFetched: ENABLED <<TaskSteps>>_vars
TaskReady ==
    \E h \in Handlers : \E i \in DOMAIN runs[h].tasks :
       runs[h].pc = "fetchAllData" /\ runs[h].tasks[i].pc \in {"getCache", "fetchFrom"}

NextWorker ==
    \/ \E h \in Handlers : Deliver(h) /\ UNCHANGED <<regVars, mergeVars, unitVars>>
    \/ HandlerSteps
    \/ TaskSteps

\* weak fairness of the handlers' continuations and of the tasks; for the
\* tasks WF_vars(TaskSteps) is written out, with TaskReady for its ENABLED
SpecWorker ==
    /\ InitWorker /\ [][NextWorker]_vars
    /\ WF_vars(HandlerSteps)
    /\ ([]<>(~TaskReady) \/ []<><<TaskSteps>>_vars)

\* ---- callLLM with its default options and with small ones, against an
\* API that answers each request in any way
LlmStatuses == {400, 429, 503}

LlmBodies == {"", "Incorrect API key provided", "NetworkError"}

LlmResponses ==
    {[kind |-> k, status |-> 200, body |-> ""] : k \in LlmResponseKinds \ {"http"}} \cup
    {[kind |-> "http", status |-> st, body |-> b] : st \in LlmStatuses, b \in LlmBodies}

LlmOptions ==
    {[maxRetries |-> m, retryDelay |-> d] : m \in {Absent, 0, 1}, d \in {Absent, 250}}

InitLlm ==
    /\ sources = AutoRegistered
    /\ RegistryIdle
    /\ merge = IdleMerge
    /\ ServiceWorkerIdle
    /\ freshness = IdleFreshness
    /\ fetching = IdleFetching
    /\ storedConfig = "defaultConfig"
    /\ importing = IdleImporting
    /\ ensuring = IdleEnsuring
    /\ hook = IdleHook
    /\ favoriteStore = IdleFavoriteStore
    /\ \E options \in LlmOptions : llm = [IdleLlm EXCEPT !.pc = "called", !.options = options]

NextLlm ==
    \/ CallLLM /\ UNCHANGED exceptLlm
    \/ \E response \in LlmResponses : LlmResponds(response) /\ UNCHANGED exceptLlm
    \/ LlmWakes /\ UNCHANGED exceptLlm

SpecLlm == InitLlm /\ [][NextLlm]_vars

\* ---- the side panel's useSmartRefresh beside the service worker: one
\* executeStrategy and one manualRefresh, called in any order at any time;
\* the stored metadata is absent, 30 minutes and 1 ms old, or 1 ms younger
\* than 30 minutes; the cache entries are absent, exactly 30 minutes old,
\* or 1 ms younger
PopupOpensAt == SILENT_THRESHOLD_MS + 2

PopupMetadata ==
    {NoMetadata} \cup
    {[lastUpdateTime |-> t, lastUpdateDate |-> DateOf(t)] : t \in {1, 3}}

PopupCacheEntries(source) ==
    IF ~source.enabled
    THEN {[present |-> TRUE, items |-> StaleItems(source), timestamp |-> 2]}
    ELSE {NoEntry} \cup
         {[present |-> TRUE, items |-> StaleItems(source), timestamp |-> ts] :
             ts \in {2, 3}}

InitPopup ==
    /\ sources = AutoRegistered
    /\ RegistryIdle
    /\ merge = IdleMerge
    /\ forceRefresh = FALSE
    /\ cache \in [CacheKeys -> UNION {PopupCacheEntries(ConfigSources[i]) :
                                        i \in DOMAIN ConfigSources}]
    /\ \A i \in DOMAIN ConfigSources :
          cache[CacheKey(ConfigSources[i])] \in PopupCacheEntries(ConfigSources[i])
    /\ feeds = <<>>
    /\ lastUpdate = 0
    /\ dataMetadata \in PopupMetadata
    /\ now = PopupOpensAt
    /\ pending = MaxHandlers
    /\ runs = [h \in Callers |-> IdleRun]
    /\ freshness = IdleFreshness
    /\ fetching = IdleFetching
    /\ storedConfig = "defaultConfig"
    /\ importing = IdleImporting
    /\ ensuring = IdleEnsuring
    /\ llm = IdleLlm
    /\ hook = IdleHook
    /\ favoriteStore = IdleFavoriteStore

NextPopup ==
    \/ ExecuteStrategyCall /\ UNCHANGED exceptHook
    \/ CheckFreshnessResumes /\ UNCHANGED exceptHook
    \/ ManualRefreshCall /\ UNCHANGED exceptHook
    \/ \E sender \in Senders : ResponseArrives(sender) /\ UNCHANGED exceptHook
    \/ \E sender \in Senders : DoRefreshReturns(sender) /\ UNCHANGED exceptHook
    \/ \E h \in Messages : StartFetchAll(h) /\ UNCHANGED <<regVars, mergeVars, unitVars>>
    \/ \E h \in Messages, i \in 1..Len(ConfigSources) :
          TaskResume(h, i) /\ UNCHANGED <<regVars, mergeVars, unitVars>>
    \/ \E h \in Messages, i \in 1..Len(ConfigSources) :
          TaskFetched(h, i) /\ UNCHANGED <<regVars, mergeVars, unitVars>>
    \/ \E h \in Messages : AfterSaveFeeds(h) /\ UNCHANGED <<regVars, mergeVars, unitVars>>
    \/ \E h \in Messages :
          AfterUpdateLastUpdate(h) /\ UNCHANGED <<regVars, mergeVars, unitVars>>
    \/ \E h \in Messages : AfterRefreshData(h) /\ UNCHANGED <<regVars, mergeVars, unitVars>>

SpecPopup == InitPopup /\ [][NextPopup]_vars

\* ---- the favourites store after its initial loadFromStorage: calls of
\* toggleFavorite, setFavorite and regenerateTags for two items, in any
\* order and at any time, each tag generation succeeding or failing
FavoriteIds == {"a", "b"}

StoredFavoriteLists ==
    {<<>>, <<[id |-> "a", tags |-> <<"AI">>, category |-> "Technology"]>>}

InitFavorites ==
    /\ sources = AutoRegistered
    /\ RegistryIdle
    /\ merge = IdleMerge
    /\ ServiceWorkerIdle
    /\ freshness = IdleFreshness
    /\ fetching = IdleFetching
    /\ storedConfig = "defaultConfig"
    /\ importing = IdleImporting
    /\ ensuring = IdleEnsuring
    /\ llm = IdleLlm
    /\ hook = IdleHook
    /\ \E list \in StoredFavoriteLists :
          favoriteStore = [IdleFavoriteStore EXCEPT !.favorites = list,
                                                    !.persisted = list]

NextFavorites ==
    \/ \E id \in FavoriteIds, generateTags \in BOOLEAN :
          ToggleFavorite(id, generateTags) /\ UNCHANGED exceptFavoriteStore
    \/ \E id \in FavoriteIds, isFavorite \in BOOLEAN :
          SetFavorite(id, isFavorite) /\ UNCHANGED exceptFavoriteStore
    \/ \E id \in FavoriteIds : RegenerateTags(id) /\ UNCHANGED exceptFavoriteStore
    \/ StorageSetSettles /\ UNCHANGED exceptFavoriteStore
    \/ \E n \in 1..MaxCalls : ImportSettles(n) /\ UNCHANGED exceptFavoriteStore
    \/ \E n \in 1..MaxCalls, outcome \in {"resolved", "rejected"} :
          GenerateTagsSettles(n, outcome) /\ UNCHANGED exceptFavoriteStore

SpecFavorites == InitFavorites /\ [][NextFavorites]_vars

(***************************************************************************)
(* Properties                                                              *)
(***************************************************************************)
\* the tasks of the fetchAllData calls in flight that are past their TTL check
CheckedTasks ==
    {<<h, i>> \in Handlers \X (1..Len(ConfigSources)) :
        /\ i \in DOMAIN runs[h].tasks
        /\ runs[h].tasks[i].path # "none"}

TaskOf(ht) == runs[ht[1]].tasks[ht[2]]

SourceOf(ht) == runs[ht[1]].enabled[ht[2]]

Occurrences(seq, x) == Cardinality({k \in DOMAIN seq : seq[k] = x})

\* C1: when the adapter of an enabled source fails during a refresh, the
\* source contributes its last cached items if a cache entry exists and
\* nothing only if none exists; and whatever one source's task returns, the
\* items every other task returned are all in the merged result.
C1_FailedSourceFallsBackToCache ==
    /\ \A ht \in CheckedTasks :
          (TaskOf(ht).pc = "done" /\ TaskOf(ht).path = "fetched"
             /\ TaskOf(ht).call.outcome # "ok")
          => TaskOf(ht).value = CachedItemsOrEmpty(TaskOf(ht).cachedData)
    /\ \A ht \in CheckedTasks :
          runs[ht[1]].pc = "saveFeeds"
          => \A k \in DOMAIN TaskOf(ht).value :
                \E m \in DOMAIN runs[ht[1]].items :
                    runs[ht[1]].items[m].id = TaskOf(ht).value[k].id

\* C2: a refresh that was not started as forced never bypasses the TTL (a
\* young entry is served from the cache), and a refresh started as forced
\* bypasses it for every one of its sources, under every interleaving.
C2_ForceBypassIsPerRefresh ==
    \A ht \in CheckedTasks :
        /\ (~runs[ht[1]].forced /\ TaskOf(ht).fresh) => TaskOf(ht).path = "hit"
        /\ runs[ht[1]].forced => TaskOf(ht).path # "hit"

\* the items fetchFromMany owes for a slot: those of an adapter that was
\* found and whose fetch succeeded, none otherwise
OwedItems(slot) ==
    IF slot.adapter # NoAdapter /\ slot.outcome = "ok"
    THEN UpstreamItems(SourceNameOf(slot.adapter)) ELSE <<>>

\* C3: fetchFromMany returns (it has no way to throw) exactly the items of
\* the adapters that succeeded, each as often as its name was given: an
\* adapter that throws and a name that is not registered contribute nothing
\* and take nothing away.
C3_FetchFromManyIsolatesFailures ==
    many.pc = "done" =>
        /\ \A i \in DOMAIN many.slots : many.slots[i].state = "fulfilled"
        /\ \A n \in SourceNames, k \in 1..2 :
              Occurrences(many.result, UpstreamItems(n)[k])
                = Cardinality({i \in DOMAIN many.slots :
                                 /\ OwedItems(many.slots[i]) # <<>>
                                 /\ SourceNameOf(many.slots[i].adapter) = n})
        /\ \A m \in DOMAIN many.result :
              \E n \in SourceNames, k \in 1..2 : many.result[m] = UpstreamItems(n)[k]

C3_Witness ==
    /\ many.pc = "done"
    /\ \E i, j \in DOMAIN many.slots :
          /\ many.slots[i].outcome = "ok"
          /\ many.slots[j].outcome = "throws"
    /\ Len(many.result) = 2

\* where slot i's items start in the result
RECURSIVE OffsetOf(_, _)
OffsetOf(slots, i) ==
    IF i <= 1 THEN 0 ELSE OffsetOf(slots, i - 1) + Len(slots[i - 1].value)

\* position of the source an item of a refresh came from, in ConfigSources
ConfigPosition(item) ==
    CHOOSE p \in DOMAIN ConfigSources : ConfigSources[p].type = item.id[1]

\* C4: the result of fetchFromMany is the per-name results laid end to end
\* in the order of the names, whatever order the fetches completed in; and
\* allItems of fetchAllData, before the sort, lists the items by the
\* position of their source in the configuration.
C4_ConcatenationInGivenOrder ==
    /\ many.pc = "done" =>
          /\ Len(many.result) = OffsetOf(many.slots, Len(many.slots) + 1)
          /\ \A i \in DOMAIN many.slots :
                SubSeq(many.result, OffsetOf(many.slots, i) + 1,
                       OffsetOf(many.slots, i + 1)) = many.slots[i].value
    /\ \A h \in Handlers :
          runs[h].pc = "saveFeeds" =>
             /\ \A p, q \in DOMAIN runs[h].allItems :
                   p < q => ConfigPosition(runs[h].allItems[p])
                              <= ConfigPosition(runs[h].allItems[q])
             /\ \A i \in DOMAIN runs[h].tasks :
                   \A k \in DOMAIN runs[h].tasks[i].value :
                      \E p \in DOMAIN runs[h].allItems :
                         runs[h].allItems[p].id = runs[h].tasks[i].value[k].id

C4_Witness ==
    /\ many.pc = "done"
    /\ Len(many.order) = 2
    /\ many.order[1] > many.order[2]
    /\ many.names[1] # many.names[2]
    /\ Len(many.result) = 4
    /\ \E h \in Handlers :
          /\ runs[h].pc = "saveFeeds"
          /\ runs[h].order = <<2, 1>>
          /\ Len(runs[h].allItems) = 4

\* C5: fetchFrom never rejects; for a name that is not registered it
\* returns the empty list and no adapter's fetch is started; for a
\* registered adapter whose fetch throws it returns the empty list.
C5_FetchFromNeverRaises ==
    /\ call.c.state # "rejected"
    /\ (call.c.state = "fulfilled" /\ ~call.registered)
          => (call.c.value = <<>> /\ ~call.c.invoked)
    /\ (call.c.state \in {"pending", "fulfilled"} /\ call.registered)
          => call.c.invoked
    /\ (call.c.state = "fulfilled" /\ call.c.outcome = "throws")
          => call.c.value = <<>>

C5_Witness ==
    /\ call.c.state = "fulfilled"
    /\ call.registered
    /\ call.c.outcome = "throws"
    /\ call.c.value = <<>>

\* C6: register throws when its sourceName is already a key and leaves that
\* key mapped to the earlier adapter; a key never maps to two adapters; a
\* register of a key that is absent (never registered, unregistered or
\* cleared) succeeds and maps the key to the new adapter.
C6_RegisterRejectsDuplicates ==
    /\ \A n \in SourceNames : Cardinality({p \in sources : p[1] = n}) <= 1
    /\ (regOp.op = "register" /\ regOp.had # NoAdapter)
          => (regOp.threw /\ <<regOp.name, regOp.had>> \in sources)
    /\ (regOp.op = "register" /\ regOp.had = NoAdapter)
          => (~regOp.threw /\ <<regOp.name, regOp.adapter>> \in sources)
    /\ regOp.op = "unregister" => ~RegistryHas(sources, regOp.name)

C6_Witness ==
    /\ regOp.op = "register"
    /\ regOp.threw
    /\ regOp.adapter = "gh2"
    /\ sources = {<<"GitHub", "gh1">>, <<"HackerNews", "hn1">>}

\* C7: a task that finds the force flag clear and its entry younger than 30
\* minutes returns the entry's items, starts no adapter fetch and writes no
\* entry; an entry of 30 minutes or more is never served as a hit.
C7_FreshEntryServedWithoutFetch ==
    \A ht \in CheckedTasks :
        /\ (~TaskOf(ht).flag /\ TaskOf(ht).fresh)
              => /\ TaskOf(ht).path = "hit"
                 /\ TaskOf(ht).pc = "done"
                 /\ TaskOf(ht).value = TaskOf(ht).cachedData.items
                 /\ ~TaskOf(ht).call.invoked
                 /\ ~TaskOf(ht).wrote
        /\ TaskOf(ht).path = "hit" => TaskOf(ht).fresh

C7_Witness ==
    \E ht \in CheckedTasks :
        /\ TaskOf(ht).path = "hit"
        /\ TaskOf(ht).cachedData.timestamp = 1
        /\ now = CACHE_DURATION
        /\ cache[CacheKey(SourceOf(ht))] = TaskOf(ht).cachedData
        /\ \E hu \in CheckedTasks :
              /\ TaskOf(hu).path = "fetched"
              /\ ~TaskOf(hu).flag
              /\ TaskOf(hu).cachedData.timestamp = 0
              /\ TaskOf(hu).cachedData.present

\* C8: a task that finds the force flag set skips the TTL check: it is
\* never a cache hit, and when its source's type is registered the adapter
\* is invoked and, once the task has returned, the source's entry has been
\* rewritten (it holds a timestamp taken during this behaviour), also when
\* the entry it found was younger than 30 minutes.
C8_ForceFlagSkipsTtl ==
    \A ht \in CheckedTasks :
        TaskOf(ht).flag =>
            /\ TaskOf(ht).path # "hit"
            /\ RegistryHas(sources, SourceOf(ht).type) =>
                  /\ TaskOf(ht).call.invoked
                  /\ TaskOf(ht).pc = "done" =>
                        /\ TaskOf(ht).wrote
                        /\ cache[CacheKey(SourceOf(ht))].present
                        /\ cache[CacheKey(SourceOf(ht))].timestamp >= CACHE_DURATION

C8_Witness ==
    \E ht \in CheckedTasks :
        /\ TaskOf(ht).flag
        /\ TaskOf(ht).fresh
        /\ TaskOf(ht).pc = "done"
        /\ TaskOf(ht).wrote
        /\ cache[CacheKey(SourceOf(ht))].timestamp > TaskOf(ht).cachedData.timestamp

\* whether the configured source an item of the merge came from is pinned
FromPinned(item) ==
    \E i \in DOMAIN merge.sources :
        /\ merge.sources[i].id = item.id[1]
        /\ merge.sources[i].isPinned = "true"

DateOrEpoch(item) == IF item.publishedAt = <<>> THEN 0 ELSE item.publishedAt[1]

\* C9: in the result of fetchAllData every item of a pinned source precedes
\* every item of a source that is not pinned, whatever their dates.
C9_PinnedItemsFirst ==
    merge.pc = "returned" =>
        \A p, q \in DOMAIN merge.out :
            (FromPinned(merge.out[p]) /\ ~FromPinned(merge.out[q])) => p < q

C9_Witness ==
    /\ merge.pc = "returned"
    /\ \E p, q \in DOMAIN merge.out :
          /\ p < q
          /\ FromPinned(merge.out[p]) /\ ~FromPinned(merge.out[q])
          /\ DateOrEpoch(merge.out[p]) < DateOrEpoch(merge.out[q])
    /\ \E p, q \in DOMAIN merge.out :
          merge.out[p].isPinned = "false" /\ merge.out[q].isPinned = "undefined"

\* C10: in the result of fetchAllData the pinned items, and the items that
\* are not pinned (isPinned false or absent, in any mixture), each appear in
\* non-increasing publishedAt order, a missing publishedAt counting as epoch
\* zero; nothing is lost in the sort.
C10_RecencyWithinPinClass ==
    merge.pc = "returned" =>
        /\ Len(merge.out) = Len(merge.allItems)
        /\ \A p, q \in DOMAIN merge.out :
              (p < q /\ (FromPinned(merge.out[p]) <=> FromPinned(merge.out[q])))
                 => DateOrEpoch(merge.out[p]) >= DateOrEpoch(merge.out[q])

\* C11: whenever the stored lastUpdateDate is not today's local date,
\* getRefreshStrategy returns FORCE, whatever the age is (a few seconds
\* included): the day boundary beats the age tiers.
C11_NewDayForces ==
    (/\ freshness.pc = "returned"
     /\ ~freshness.metadata.isNull
     /\ freshness.metadata.lastUpdateDate # DateOf(freshness.now))
    => freshness.strategy = "force"

\* refreshed less than 30 minutes ago, before midnight; asked after midnight
C11_Witness ==
    /\ freshness.pc = "returned"
    /\ ~freshness.metadata.isNull
    /\ freshness.metadata.hasTime
    /\ freshness.metadata.lastUpdateTime # 0
    /\ freshness.now - freshness.metadata.lastUpdateTime = 15000
    /\ freshness.metadata.lastUpdateDate = DateOf(freshness.metadata.lastUpdateTime)
    /\ freshness.metadata.lastUpdateDate # DateOf(freshness.now)
    /\ freshness.strategy = "force"

\* the strategy the age tiers name
TierOf(age) ==
    IF age > 6 * 60 * 60 * 1000 THEN "force"
    ELSE IF age > 30 * 60 * 1000 THEN "silent"
    ELSE "immediate"

C13_MissingMetadataForces ==
    (/\ freshness.pc = "returned"
     /\ \/ freshness.metadata.isNull
        \/ ~freshness.metadata.hasTime
        \/ freshness.metadata.lastUpdateTime = 0)
    => freshness.strategy = "force"

\* an object dated today without lastUpdateTime
C13_Witness ==
    /\ freshness.pc = "returned"
    /\ ~freshness.metadata.isNull
    /\ ~freshness.metadata.hasTime
    /\ freshness.metadata.lastUpdateDate = DateOf(freshness.now)
    /\ freshness.strategy = "force"

\* C14: a completed full refresh (refreshData of the service worker,
\* triggerRefresh of the data fetcher) has handed saveFeeds the merged sorted
\* result cut to config.maxItems and has written DataMetadata exactly once,
\* however many sources it fetched; DataMetadata holds the time of a write
\* and the local date of that time.
C14_RefreshPersistsCappedAndStampsOnce ==
    /\ \A h \in Callers :
          runs[h].pc = "done" => runs[h].capped /\ runs[h].metadataWrites = 1
    /\ dataMetadata # NoMetadata =>
          /\ dataMetadata.lastUpdateTime <= now
          /\ dataMetadata.lastUpdateDate = DateOf(dataMetadata.lastUpdateTime)

\* C16: two fetches of one adapter that both see an upstream entry (the
\* second fetch later, with a new entry in front of the listing) give it
\* the same FeedItem id.
C16_IdsStableAcrossFetches ==
    (fetching.pc = "returned" /\ fetching.round = 2) =>
        \A i \in DOMAIN fetching.previous : \A j \in DOMAIN fetching.result.value :
            fetching.previous[i].url = fetching.result.value[j].url
                => fetching.previous[i].id = fetching.result.value[j].id

\* how the last request of a fetch can fail
FailedResponses == (ResponseKinds \ {"ok"}) \cup {"oneFails", "nullItem"}

\* C17: no adapter's fetch raises; a fetch whose request failed, came back
\* non-2xx, or carried a payload that is malformed or lacks the expected
\* container returns the empty sequence; an RSS fetch without url returns
\* the empty sequence without a request.
C17_AdaptersNeverRaise ==
    fetching.pc = "returned" =>
        /\ ~fetching.result.rejected
        /\ (/\ fetching.responses # <<>>
            /\ fetching.responses[Len(fetching.responses)] \in FailedResponses)
           => fetching.result.value = <<>>
        /\ (fetching.adapter = "RSS" /\ fetching.options.url = 0)
           => fetching.requests = 0 /\ fetching.result.value = <<>>

\* HackerNews: the id list arrived, one of the item requests failed
C17_Witness ==
    /\ fetching.pc = "returned"
    /\ fetching.adapter = "HackerNews"
    /\ fetching.responses = <<"ok", "oneFails">>
    /\ Len(fetching.requested) > 0
    /\ fetching.result = [rejected |-> FALSE, value |-> <<>>]

\* C18: ProductHunt asks its proxies in list order, the next one only after
\* the one before failed (HTTP error, unparseable or unexpected payload, no
\* items); a proxy that succeeds ends the cascade; the fetch returns the
\* empty fallback only after all proxies were asked and failed, the error
\* then carrying the message of every attempt.
C18_ProxyCascadeInOrder ==
    fetching.adapter = "ProductHunt" =>
        /\ \A k \in DOMAIN fetching.attempts : fetching.attempts[k] = k
        /\ \A k \in DOMAIN fetching.responses :
              /\ k < Len(fetching.attempts) => fetching.responses[k] # "ok"
              /\ fetching.responses[k] = "ok"
                    => k = Len(fetching.attempts) /\ fetching.pc = "returned"
        /\ (fetching.pc = "returned" /\ fetching.result.value = <<>>)
              => /\ Len(fetching.attempts) = Len(RSS_PROXIES)
                 /\ \A k \in DOMAIN fetching.responses : fetching.responses[k] # "ok"
                 /\ Len(fetching.message) = Len(RSS_PROXIES)
                 /\ \A k \in DOMAIN fetching.message :
                       fetching.message[k] = ProxyStep(k, fetching.responses[k]).message

\* the days of a window
WindowDays(w) ==
    CASE w = "1d" -> 1 [] w = "3d" -> 3 [] w = "7d" -> 7 [] OTHER -> 30

\* the entries the RSS fetch in `fetching` owes its caller: of the first
\* min(n, count) entries those not older than the call minus the window
RssOwed ==
    LET n      == Len(fetching.upstream)
        count  == IF fetching.options.count = Absent THEN n ELSE fetching.options.count
        first  == SubSeq(fetching.upstream, 1, IF n < count THEN n ELSE count)
        cutoff == fetching.at - WindowDays(fetching.options.timeRange) * 24 * 60 * 60
    IN SelectSeq(first, LAMBDA e : e.date.kind # "valid" \/ e.date.t >= cutoff)

\* C19: an RSS fetch with window 1d, 3d, 7d or 30d whose request succeeded
\* returns, in feed order, exactly those of the first min(n, count) entries
\* that are not older than now minus the window; an entry without a
\* parseable date is among them, with publishedAt = now.
C19_RssWindowFilter ==
    (/\ fetching.adapter = "RSS"
     /\ fetching.pc = "returned"
     /\ fetching.responses = <<"ok">>
     /\ fetching.options.timeRange # "")
    => /\ Len(fetching.result.value) = Len(RssOwed)
       /\ \A k \in DOMAIN fetching.result.value :
             k \in DOMAIN RssOwed =>
                /\ fetching.result.value[k].url = RssOwed[k].key
                /\ IF RssOwed[k].date.kind = "valid"
                   THEN fetching.result.value[k].publishedAt = <<RssOwed[k].date.t>>
                   ELSE /\ fetching.result.value[k].publishedAt # <<>>
                        /\ fetching.result.value[k].publishedAt[1] >= fetching.at
                        /\ fetching.result.value[k].publishedAt[1] <= fetching.readAt

\* where the story with this key stands in the top stories list
PositionOf(key) == CHOOSE k \in DOMAIN fetching.upstream : fetching.upstream[k].key = key

\* C20: HackerNews asks for the details of at most min(count * 3, 100)
\* stories, taken from the front of the id list, and returns at most count
\* items, each with a score of at least the threshold, in the order of the
\* id list.
C20_HackerNewsOverFetchAndFilter ==
    fetching.adapter = "HackerNews" =>
        LET count   == IF fetching.options.count = Absent THEN 15
                       ELSE fetching.options.count
            limit   == IF count * 3 < 100 THEN count * 3 ELSE 100
            minimum == IF fetching.options.minScore = Absent THEN 100
                       ELSE fetching.options.minScore
            value   == fetching.result.value
        IN /\ Len(fetching.requested) <= limit
           /\ \A k \in DOMAIN fetching.requested :
                 fetching.requested[k] = fetching.upstream[k].key
           /\ fetching.pc = "returned" =>
                 /\ Len(value) <= count
                 /\ \A k \in DOMAIN value : value[k].score >= minimum
                 /\ \A k \in DOMAIN value : \A l \in DOMAIN value :
                       k < l => PositionOf(value[k].url) < PositionOf(value[l].url)

\* count = 34 against 110 top stories: 100 stories asked for, 33 of them
\* reach the threshold of 150, three more beyond the hundredth would
C20_Witness ==
    /\ fetching.adapter = "HackerNews"
    /\ fetching.pc = "returned"
    /\ fetching.round = 1
    /\ fetching.options.count = 34
    /\ fetching.options.minScore = 150
    /\ Len(fetching.upstream) = MaxStories
    /\ Len(fetching.requested) = 100
    /\ Len(fetching.result.value) = 33

\* C15: whatever the enabled sources are (two of one type, two RSS sources
\* with one feed URL), no two items of the result of fetchAllData carry the
\* same id.
C15_MergedIdsUnique ==
    merge.pc = "returned" =>
        \A i \in DOMAIN merge.out : \A j \in DOMAIN merge.out :
            i # j => merge.out[i].id # merge.out[j].id

\* C21: importData either replaces both the stored configuration and the
\* stored feeds by the imported values and returns true, or returns false
\* with both as they were; a CSV import and unparseable text return false
\* with nothing written.
C21_ImportAllOrNothing ==
    importing.pc = "returned" =>
       /\ \/ /\ importing.result
             /\ storedConfig = ImportedConfig(importing.data).value
             /\ feeds = ImportedFeeds(importing.data).value
          \/ /\ ~importing.result
             /\ storedConfig = importing.configBefore
             /\ feeds = importing.feedsBefore
       /\ importing.format = "csv" \/ importing.data.parse = "throws" =>
             /\ ~importing.result
             /\ importing.writes = {}

\* the fetchAllData calls in flight or just settled
FetchingRuns == {h \in Callers : runs[h].pc \in {"fetchAllData", "saveFeeds"}}

DisabledSources == {ConfigSources[i] : i \in {j \in DOMAIN ConfigSources :
                                                ~ConfigSources[j].enabled}}

\* C22: fetchAllData starts a fetchDataByType task for the enabled sources
\* only, in the order of the configuration: no task reads or fetches for a
\* disabled source, a disabled source's cache entry stays as the earlier
\* session left it, and every item of the merged result comes from an
\* enabled source and carries that source's isPinned.
C22_DisabledSourcesUntouched ==
    /\ \A h \in FetchingRuns :
          /\ runs[h].enabled = SelectSeq(ConfigSources, LAMBDA s : s.enabled = TRUE)
          /\ DOMAIN runs[h].tasks = DOMAIN runs[h].enabled
          /\ \A k \in DOMAIN runs[h].items :
                \E i \in DOMAIN runs[h].enabled :
                   /\ runs[h].enabled[i].enabled
                   /\ runs[h].items[k].id[1] = runs[h].enabled[i].type
                   /\ runs[h].items[k].isPinned = runs[h].enabled[i].isPinned
    /\ \A s \in DisabledSources :
          /\ cache[CacheKey(s)] = [present |-> TRUE, items |-> StaleItems(s),
                                   timestamp |-> 1]
          /\ \A k \in DOMAIN feeds : feeds[k].id[1] # s.type

C22_Witness ==
    /\ DisabledSources # {}
    /\ \E h \in Handlers :
          /\ runs[h].pc = "saveFeeds"
          /\ \E k \in DOMAIN runs[h].items : runs[h].items[k].isPinned = "true"
          /\ \E k \in DOMAIN runs[h].items : runs[h].items[k].isPinned = "undefined"
          /\ feeds # <<>>

\* C23: ensureArray(undefined) is the empty array, ensureArray(x) is [x] for
\* every scalar x, the empty string and 0 included, and ensureArray(a) is a
\* for every array a.
C23_EnsureArrayWrapsScalars ==
    ensuring.pc = "returned" =>
       /\ ensuring.value.kind = "undefined" => ensuring.result = <<>>
       /\ ensuring.value.kind \in {"string", "number", "boolean"}
             => ensuring.result = <<ensuring.value>>
       /\ ensuring.value.kind = "array" => ensuring.result = ensuring.value.elems

\* C24: within one fetchAllData call over sources with distinct ids, a step
\* that changes the cache entry of a source is the step in which that call's
\* task for the source, which had not written before, resumes from its one
\* fetchFrom: the entry then holds exactly the items of that one adapter
\* invocation, no other entry changes, and a task that has written does
\* nothing more.
C24_CacheEntryWrittenOnceByItsTask ==
    [][/\ \A k \in CacheKeys :
             cache'[k] # cache[k] =>
                /\ \A k2 \in CacheKeys \ {k} : cache'[k2] = cache[k2]
                /\ \E h \in Callers : \E i \in DOMAIN runs[h].tasks :
                      /\ runs[h].enabled[i].id = k
                      /\ \A j \in DOMAIN runs[h].tasks \ {i} :
                            /\ runs[h].enabled[j].id # k
                            /\ runs'[h].tasks[j] = runs[h].tasks[j]
                      /\ runs[h].tasks[i].pc = "fetchFrom"
                      /\ ~runs[h].tasks[i].wrote
                      /\ runs'[h].tasks[i].pc = "done"
                      /\ runs'[h].tasks[i].wrote
                      /\ runs'[h].tasks[i].call.invoked
                      /\ cache'[k].items = runs'[h].tasks[i].call.value
                      /\ cache'[k].present
       /\ \A h \in Callers : \A i \in DOMAIN runs[h].tasks :
             runs[h].tasks[i].wrote /\ runs'[h].pc \in {"fetchAllData", "saveFeeds"}
                => runs'[h].tasks[i] = runs[h].tasks[i]
      ]_vars

C24_Witness ==
    \E h \in Handlers :
       /\ runs[h].pc = "saveFeeds"
       /\ Len(runs[h].tasks) = 2
       /\ \A i \in DOMAIN runs[h].tasks :
             /\ runs[h].tasks[i].wrote
             /\ cache[runs[h].enabled[i].id].items = runs[h].tasks[i].value
       /\ runs[h].tasks[1].value # runs[h].tasks[2].value

\* the forced refreshes in flight: the alarm listener and the REFRESH_DATA
\* branch between their setForceRefresh(true) and their setForceRefresh(false)
ForcedInFlight ==
    {h \in Handlers : SetsForce(h) /\ runs[h].pc \notin {"idle", "done", "rejected"}}

\* C25: whenever no forced refresh is in flight the flag is false; every
\* handler that set the flag finishes, and the step in which it finishes
\* leaves the flag false, also when its refresh failed.
C25_FlagClearedAfterEveryForcedRefresh ==
    /\ [](ForcedInFlight = {} => forceRefresh = FALSE)
    /\ \A h \in {"alarm", "message"} : (h \in ForcedInFlight) ~> (runs[h].pc = "done")
    /\ [][\A h \in {"alarm", "message"} :
            h \in ForcedInFlight /\ h \notin ForcedInFlight'
               => runs'[h].pc = "done" /\ forceRefresh' = FALSE]_vars

C25_Witness ==
    /\ storedConfig = "malformed"
    /\ runs["alarm"].pc = "done" /\ runs["alarm"].forced
    /\ runs["message"].pc = "done" /\ runs["message"].forced
    /\ forceRefresh = FALSE

\* the responses after which callLLM may retry: HTTP 429, HTTP 5xx and a
\* network error of the fetch
Retryable(response) ==
    \/ response.kind = "networkError"
    \/ response.kind = "http" /\ (response.status = 429 \/ response.status >= 500)

\* C26: callLLM sends at most maxRetries + 1 requests; a further request
\* follows only a response of HTTP 429, HTTP 5xx or a network error, after
\* a sleep of retryDelay * (attempt + 1), the sleeps strictly increasing;
\* a response with any other HTTP error status is the last one, and the
\* call ends with an error (after a single request when it is the first).
C26_LlmRetriesBounded ==
    /\ llm.requests <= MaxRetriesOf(llm.options) + 1
    /\ MaxRetriesOf(llm.options) = MAX_RETRIES_DEFAULT => llm.requests <= 4
    /\ \A k \in DOMAIN llm.responses :
          k < llm.requests \/ llm.pc = "sleep" => Retryable(llm.responses[k])
    /\ \A k \in DOMAIN llm.delays :
          /\ llm.delays[k] = RetryDelayOf(llm.options) * k
          /\ k > 1 => llm.delays[k] > llm.delays[k - 1]
    /\ \A k \in DOMAIN llm.responses :
          llm.responses[k].kind = "http" /\ ~Retryable(llm.responses[k])
             => k = llm.requests /\ llm.pc = "threw"

\* C27: the flag is not raised for a refresh that executeStrategy started
\* under the SILENT strategy: the invocation of the REFRESH_DATA branch it
\* started is not a forced one, and each of its tasks that finds a cache
\* entry younger than 30 minutes serves it from the cache.
C27_SilentRefreshNotForced ==
    hook.exec.strategy = "silent" /\ runs["message"].pc # "idle" =>
       /\ ~runs["message"].forced
       /\ \A i \in DOMAIN runs["message"].tasks :
             LET task == runs["message"].tasks[i] IN
             task.pc # "getCache" /\ task.fresh => ~task.flag /\ task.path = "hit"

\* the senders whose doRefresh() has not returned yet
PendingSenders == {sender \in Senders : hook[sender].pc \in {"doRefresh", "wait"}}

\* C28: at most one refresh of a useSmartRefresh instance is pending at any
\* time (at most one REFRESH_DATA message is unanswered), and
\* isRefreshingRef is true exactly while one is pending.
C28_OneRefreshInFlight ==
    /\ Cardinality(PendingSenders) <= 1
    /\ Cardinality({h \in Messages : runs[h].pc # "idle" /\ ~runs[h].responded}) <= 1
    /\ hook.ref <=> PendingSenders # {}

\* C29: the service worker answers a REFRESH_DATA message once, and only
\* when the refresh the message started has finished: the response is sent
\* in the step in which refreshData has returned, either with the feeds
\* saved and DataMetadata written by this run or with the failure caught;
\* once sent it is not sent again; and every message delivered is
\* eventually answered, also when the refresh fails.
C29_OneResponseAfterRefresh ==
    /\ [](runs["message"].responded => runs["message"].pc = "done")
    /\ [][runs["message"].responded # runs'["message"].responded =>
            /\ ~runs["message"].responded
            /\ runs["message"].pc \in {"updateDataMetadata", "caught"}
            /\ runs["message"].pc = "updateDataMetadata" =>
                  /\ runs["message"].metadataWrites = 1
                  /\ dataMetadata = [lastUpdateTime |-> now,
                                     lastUpdateDate |-> DateOf(now)]
                  /\ lastUpdate = now
            /\ runs["message"].pc = "caught" => ~HasSources(storedConfig)]_vars
    /\ (runs["message"].pc # "idle") ~> runs["message"].responded

\* a failed refresh has been answered
C29_Witness ==
    /\ runs["message"].responded
    /\ ~HasSources(storedConfig)
    /\ runs["message"].metadataWrites = 0

\* C30: when a tag generation completes for an item that is un-favourited
\* at that moment (un-favourited while the generation was in flight, or
\* never a favourite), the item is absent afterwards: updateTags creates
\* no entry; and when a toggleFavorite completes, the array stored under
\* 'favorites' equals the in-memory map.
C30_FavoritesPersistedAfterToggle ==
    LET n == favoriteStore.settled IN
    n # 0 =>
       /\ favoriteStore.calls[n].generate /\ favoriteStore.calls[n].unfavorited
           /\ favoriteStore.calls[n].pc = "done"
           => ~FavoritesHas(favoriteStore.favorites, favoriteStore.calls[n].id)
       /\ favoriteStore.calls[n].op = "toggleFavorite"
           => favoriteStore.persisted = favoriteStore.favorites

====
